---------------------------- MODULE Spec2Model ----------------------------
(***************************************************************************)
(* Multi-room AI chat: message store (lib/db), admission control and flag  *)
(* detection (POST /api/stream), stream orchestrator (streamRoomReply),    *)
(* room broadcast server (ws-server) and the admin settings endpoint.      *)
(*                                                                         *)
(* Conventions                                                             *)
(*  - a JavaScript string is a sequence of one-character strings, so that  *)
(*    concatenation, length and substring search are computed;             *)
(*  - a JavaScript number is a natural number; `undefined` and NaN in a    *)
(*    numeric position are the negative sentinels UndefNum and NaN, and    *)
(*    the Js* operators give them JavaScript's arithmetic and comparison;  *)
(*  - an object with optional keys is a record whose DOMAIN holds exactly  *)
(*    the keys that are present.                                           *)
(*  - one action is one synchronous run of JavaScript between two awaits.  *)
(***************************************************************************)
EXTENDS Integers, Sequences, FiniteSets, TLC

VARIABLES
    now,             \* Date.now()
    nextUuid,        \* number of randomUUID() values handed out
    messages,        \* lib/db: const messages: Message[]
    roomStats,       \* lib/db: Map<string, RoomStats>
    roomSettings,    \* lib/db: Map<string, RoomSettings>
    moderationLogs,  \* lib/db: ModerationLog[] (newest first)
    rateLimitStore,  \* api/stream: Map<string, RateEntry>
    slowModeStore,   \* api/stream: Map<string, number>
    reqs,            \* the streamRoomReply invocations, one record each
    resp,            \* the last HTTP response a route handler returned
    rooms,           \* ws-server: Map<string, Set<WebSocket>>
    readyState,      \* ws-server: readyState of every connection handle
    connRoom,        \* ws-server: the roomId captured by a connection's close handler
    inbox,           \* per connection: the frames client.send() accepted, in order
    ingested,        \* the (roomId, message) pairs broadcast() was invoked with, in order
    lastBroadcast,   \* outcome of the last run of the /broadcast handler
    users,           \* lib/db: Map<string, User>
    session,         \* lib/ws connect(): the closure state of the client session
    chat             \* components/Chat: state and refs of the mounted component

storeVars == <<messages, roomStats, roomSettings, moderationLogs>>
admVars   == <<rateLimitStore, slowModeStore>>
wsVars    == <<rooms, readyState, connRoom, inbox, ingested, lastBroadcast>>
vars == <<now, nextUuid, messages, roomStats, roomSettings, moderationLogs,
          rateLimitStore, slowModeStore, reqs, resp,
          rooms, readyState, connRoom, inbox, ingested, lastBroadcast,
          users, session, chat>>

----------------------------------------------------------------------------
(* Bounds of the model *)

\* accepted POST /api/stream requests in a run of the rate-limit specification
MaxRateReqs == 7
\* accepted POST /api/stream requests in a run of the admission specification
MaxAdmReqs == 3
\* streamRoomReply invocations in a run of the orchestrator specification
MaxStreamReqs == 2
\* fragments one generation yields at most
MaxFragments == 2
\* a rate entry's count stops growing here in the admission specification
MaxCount == 4
\* admin settings updates in a run
MaxSettingsUpdates == 1
\* invocations of broadcast() in a run of the broadcast-server specification
MaxBroadcasts == 2
\* connection handles the broadcast server accepts in a run
MaxConns == 3
\* the clock advances at most this many times, TickMs at a time
MaxTicks == 4
\* calls of addModerationLog in a run of the moderation-log specification
MaxLogCalls == 203
\* streamRoomReply invocations in a run with the ingestion endpoint down
MaxDownReqs == 1
\* streamRoomReply invocations in a run of the response-time specification
MaxTimedReqs == 7
MaxTimedTicks == 3
\* messages the message-store and message-edit specifications hold at a time
MaxStored == 3
MaxEdited == 2
\* calls per statistics counter and moderation log in the message-store specification
MaxStoreCalls == 1
\* moderation requests that find their message, and messages stored at a time,
\* in the moderation specification
MaxModReqs == 2
MaxModStored == 2
\* requests to the message and moderation routes, and invocations of
\* streamRoomReply, in the validation specification
MaxValReqs == 2
\* POST requests to the presence route
MaxPresencePosts == 2
\* calls of sendMessages by the Chat component, and token events of a response
MaxChatSends == 2
MaxChatTokens == 2
\* user-message events one client receives in a run
MaxChatOthers == 2
\* WebSocket objects one client session creates in a run
MaxSockets == 8
TickMs == 10 * 1000
\* Date.now() when the server starts (epoch milliseconds, scaled down)
StartTime == 100 * 1000

----------------------------------------------------------------------------
(* JavaScript values *)

UndefNum == 0 - 2000000000
NaN == UndefNum - 1
IsNum(x) == x > UndefNum

JsAdd(a, b) == IF IsNum(a) /\ IsNum(b) THEN a + b ELSE NaN
JsSub(a, b) == IF IsNum(a) /\ IsNum(b) THEN a - b ELSE NaN
JsGt(a, b) == IsNum(a) /\ IsNum(b) /\ a > b
JsGe(a, b) == IsNum(a) /\ IsNum(b) /\ a >= b
JsLt(a, b) == IsNum(a) /\ IsNum(b) /\ a < b
\* Math.ceil(ms / 1000)
CeilSeconds(ms) == IF IsNum(ms) THEN 0 - ((0 - ms) \div 1000) ELSE NaN
\* Math.max(lo, Number(x)) for a finite x
MathMax(lo, x) == IF x > lo THEN x ELSE lo

\* A JavaScript number that need not be an integer: a non-negative finite
\* IEEE-754 binary64 value <<hi, lo, e>>, whose 53-bit significand is
\* hi * 2^27 + lo with 2^25 <= hi < 2^26, scaled by 2^e; zero is <<0, 0, 0>>
Limb == 2^27
HiMin == 2^25
HiMax == 2^26
DoubleZero == <<0, 0, 0>>

\* a wide significand <<hi, lo>> doubled and halved
ShiftLeft1(w) == <<2 * w[1] + (w[2] \div (Limb \div 2)), (w[2] % (Limb \div 2)) * 2>>
ShiftRight1(w) == <<w[1] \div 2, (w[1] % 2) * (Limb \div 2) + (w[2] \div 2)>>

\* round-to-nearest, ties-to-even: the double nearest to (w + f) * 2^e, where
\* f < 1 is the fraction below w, whose first bit is guard and whose rest is
\* nonzero exactly if sticky
RECURSIVE RoundNearestEven(_, _, _, _)
RoundNearestEven(w, e, guard, sticky) ==
    IF w = <<0, 0>> THEN DoubleZero
    ELSE IF w[1] >= HiMax
         THEN RoundNearestEven(ShiftRight1(w), e + 1, w[2] % 2 = 1, sticky \/ guard)
    ELSE IF w[1] < HiMin
         THEN RoundNearestEven(ShiftLeft1(w), e - 1, FALSE, FALSE)
    ELSE IF guard /\ (sticky \/ w[2] % 2 = 1)
         THEN IF w[2] + 1 < Limb THEN <<w[1], w[2] + 1, e>>
              ELSE IF w[1] + 1 < HiMax THEN <<w[1] + 1, 0, e>>
              ELSE <<HiMin, 0, e + 1>>
    ELSE <<w[1], w[2], e>>

\* an integer 0 <= n < 2^31 as a number
FromInt(n) == RoundNearestEven(<<n \div Limb, n % Limb>>, 0, FALSE, FALSE)

\* a * n for an integer 0 <= n < 16
DoubleMul(a, n) ==
    LET p == a[2] * n
    IN  RoundNearestEven(<<a[1] * n + (p \div Limb), p % Limb>>, a[3], FALSE, FALSE)

\* w shifted right by d bits; <<shifted, whether a nonzero bit was dropped>>
RECURSIVE ShiftRightSticky(_, _, _)
ShiftRightSticky(w, d, sticky) ==
    IF d = 0 \/ w = <<0, 0>> THEN <<w, sticky>>
    ELSE ShiftRightSticky(ShiftRight1(w), d - 1, sticky \/ w[2] % 2 = 1)

\* a + b
DoubleAdd(a, b) ==
    IF a = DoubleZero THEN b
    ELSE IF b = DoubleZero THEN a
    ELSE LET x == IF a[3] >= b[3] THEN a ELSE b
             y == IF a[3] >= b[3] THEN b ELSE a
             wx == ShiftLeft1(ShiftLeft1(ShiftLeft1(<<x[1], x[2]>>)))
             wy == ShiftRightSticky(ShiftLeft1(ShiftLeft1(ShiftLeft1(<<y[1], y[2]>>))),
                                    x[3] - y[3], FALSE)
             lo == wx[2] + wy[1][2]
         IN  RoundNearestEven(<<wx[1] + wy[1][1] + (lo \div Limb), lo % Limb>>,
                              x[3] - 3, FALSE, wy[2])

\* the quotient bits of a long division continued below the integer quotient w
\* with remainder r, until w has 54 bits
RECURSIVE DivBits(_, _, _, _)
DivBits(w, e, r, n) ==
    IF w[1] >= HiMax THEN RoundNearestEven(w, e, FALSE, r # 0)
    ELSE LET s == ShiftLeft1(w)
             bit == IF 2 * r >= n THEN 1 ELSE 0
         IN  DivBits(<<s[1], s[2] + bit>>, e - 1, 2 * r - bit * n, n)

\* a / n for an integer 0 < n < 16
DoubleDiv(a, n) ==
    IF a = DoubleZero THEN DoubleZero
    ELSE LET t == (a[1] % n) * Limb + a[2]
         IN  DivBits(<<a[1] \div n, t \div n>>, a[3], t % n, n)

\* a < b
DoubleLt(a, b) ==
    IF a = DoubleZero THEN b # DoubleZero
    ELSE IF b = DoubleZero THEN FALSE
    ELSE \/ a[3] < b[3]
         \/ a[3] = b[3] /\ a[1] < b[1]
         \/ a[3] = b[3] /\ a[1] = b[1] /\ a[2] < b[2]

\* the string "undefined-valued" optional string argument
UndefStr == <<"<undefined>">>
EmptyStr == <<>>
Falsy(s) == s = EmptyStr \/ s = UndefStr
\* a ?? b on strings
OrElse(s, d) == IF s = UndefStr THEN d ELSE s

Str_anonymous == <<"a", "n", "o", "n", "y", "m", "o", "u", "s">>
Str_assistant == <<"a", "s", "s", "i", "s", "t", "a", "n", "t">>

\* an id: a client-supplied one <<"c", n>> or a randomUUID() <<"u", n>>
NoId == <<"none", 0>>
Uuid(n) == <<"u", n>>

\* {...current, ...updates}: every key present in updates wins, also when its
\* value is undefined
Spread(current, updates) ==
    [f \in (DOMAIN current) \cup (DOMAIN updates) |->
        IF f \in DOMAIN updates THEN updates[f] ELSE current[f]]

\* a Map as a function whose DOMAIN is the key set
MapSet(m, k, v) == [x \in (DOMAIN m) \cup {k} |-> IF x = k THEN v ELSE m[x]]
MapDelete(m, k) == [x \in (DOMAIN m) \ {k} |-> m[x]]
EmptyMap == [x \in {} |-> 0]

----------------------------------------------------------------------------
(* lib/db: the message store *)

\* messages.push(message)
saveMessage(msgs, message) == Append(msgs, message)

HasMessage(msgs, id) == \E i \in 1..Len(msgs) : msgs[i].id = id

\* messages.find((message) => message.id === id): the first match
getMessage(msgs, id) ==
    msgs[CHOOSE i \in 1..Len(msgs) :
            /\ msgs[i].id = id
            /\ \A j \in 1..(i - 1) : msgs[j].id # id]

DefaultRoomStats(roomId) ==
    [roomId |-> roomId, userMessages |-> 0, assistantMessages |-> 0,
     avgResponseMs |-> DoubleZero, lastResponseMs |-> 0, totalResponses |-> 0,
     tokenUsage |-> [prompt |-> 0, completion |-> 0, total |-> 0]]

\* a read that returns the statistics as they were when the module was
\* loaded, not as the last update left them
getRoomStats_Stale(stats, roomId) == DefaultRoomStats(roomId)

getRoomStats(stats, roomId) ==
    IF roomId \in DOMAIN stats THEN stats[roomId] ELSE DefaultRoomStats(roomId)

\* a merge that takes tokenUsage from the updates as a whole
TokenField_Replaced(current, updates, f) ==
    IF "tokenUsage" \in DOMAIN updates
    THEN IF f \in DOMAIN updates.tokenUsage THEN updates.tokenUsage[f] ELSE UndefNum
    ELSE current.tokenUsage[f]

\* updates.tokenUsage?.f ?? current.tokenUsage.f
TokenField(current, updates, f) ==
    IF "tokenUsage" \in DOMAIN updates /\ f \in DOMAIN updates.tokenUsage
       /\ updates.tokenUsage[f] # UndefNum
    THEN updates.tokenUsage[f]
    ELSE current.tokenUsage[f]

NextRoomStats(current, updates) ==
    [Spread(current, updates) EXCEPT
        !.tokenUsage = [prompt |-> TokenField(current, updates, "prompt"),
                        completion |-> TokenField(current, updates, "completion"),
                        total |-> TokenField(current, updates, "total")]]

updateRoomStats(stats, roomId, updates) ==
    MapSet(stats, roomId, NextRoomStats(getRoomStats(stats, roomId), updates))

DefaultRateLimitMax == 5
DefaultRateLimitWindowMs == 20000
DefaultSlowModeMs == 0

\* a reader that answers with the defaults whatever has been stored
getRoomSettings_Defaults(settings, roomId) ==
    [roomId |-> roomId,
     rateLimitMax |-> DefaultRateLimitMax,
     rateLimitWindowMs |-> DefaultRateLimitWindowMs,
     slowModeMs |-> DefaultSlowModeMs]

getRoomSettings(settings, roomId) ==
    IF roomId \in DOMAIN settings THEN settings[roomId]
    ELSE [roomId |-> roomId,
          rateLimitMax |-> DefaultRateLimitMax,
          rateLimitWindowMs |-> DefaultRateLimitWindowMs,
          slowModeMs |-> DefaultSlowModeMs]

\* const next = { ...current, ...updates, roomId }
NextRoomSettings(current, updates, roomId) ==
    Spread(Spread(current, updates), [roomId |-> roomId])

updateRoomSettings(settings, roomId, updates) ==
    MapSet(settings, roomId,
           NextRoomSettings(getRoomSettings(settings, roomId), updates, roomId))

ModerationLogCap == 200

\* a truncation that keeps the oldest entries: the new log is dropped at the cap
addModerationLog_KeepOldest(logs, entry, id, at) ==
    LET log == Spread(entry, [id |-> id, createdAt |-> at])
    IN  IF Len(logs) >= ModerationLogCap THEN logs ELSE <<log>> \o logs

\* moderationLogs.unshift(log); moderationLogs.splice(200)
addModerationLog(logs, entry, id, at) ==
    LET log == Spread(entry, [id |-> id, createdAt |-> at])
        all == <<log>> \o logs
    IN  IF Len(all) > ModerationLogCap THEN SubSeq(all, 1, ModerationLogCap) ELSE all

----------------------------------------------------------------------------
(* api/stream: flag detection *)

UpperLetters == <<"A", "B", "C", "D", "E", "F", "G", "H", "I", "J", "K", "L", "M",
                  "N", "O", "P", "Q", "R", "S", "T", "U", "V", "W", "X", "Y", "Z">>
LowerLetters == <<"a", "b", "c", "d", "e", "f", "g", "h", "i", "j", "k", "l", "m",
                  "n", "o", "p", "q", "r", "s", "t", "u", "v", "w", "x", "y", "z">>

\* one character of content.toLowerCase()
LowerChar(c) ==
    IF \E i \in 1..Len(UpperLetters) : UpperLetters[i] = c
    THEN LowerLetters[CHOOSE i \in 1..Len(UpperLetters) : UpperLetters[i] = c]
    ELSE c

toLowerCase(s) == [i \in 1..Len(s) |-> LowerChar(s[i])]

\* lowered.includes(keyword)
includes(s, kw) ==
    \E i \in 1..(Len(s) - Len(kw) + 1) : SubSeq(s, i, i + Len(kw) - 1) = kw

\* the characters the regular expression class . does not match
LineTerminators == {"\n", "\r"}
\* the characters \S does not match
WhiteSpace == {" ", "\t", "\n", "\r"}

\* /(.)\1{6,}/.test(content)
MinRepeat == 7
HasRepeatedChars(s) ==
    \E i \in 1..(Len(s) - MinRepeat + 1) :
        /\ s[i] \notin LineTerminators
        /\ \A j \in i..(i + MinRepeat - 1) : s[j] = s[i]

\* /https?:\/\/\S+/gi.test(content)
HasUrl(s) ==
    LET l == toLowerCase(s)
        http == <<"h", "t", "t", "p", ":", "/", "/">>
        https == <<"h", "t", "t", "p", "s", ":", "/", "/">>
        At(p, i) == /\ i + Len(p) <= Len(s)
                    /\ SubSeq(l, i, i + Len(p) - 1) = p
                    /\ s[i + Len(p)] \notin WhiteSpace
    IN  \E i \in 1..Len(s) : At(http, i) \/ At(https, i)

LinkOnlyMaxLen == 30

bannedKeywords ==
    << <<"f", "r", "e", "e", " ", "m", "o", "n", "e", "y">>,
       <<"g", "i", "v", "e", "a", "w", "a", "y">>,
       <<"s", "c", "a", "m">>,
       <<"s", "p", "a", "m">> >>

detectFlags(content) ==
    (IF HasRepeatedChars(content) THEN <<"repeated-characters">> ELSE <<>>)
    \o (IF HasUrl(content) /\ Len(content) < LinkOnlyMaxLen
        THEN <<"link-only">> ELSE <<>>)
    \o (IF \E k \in 1..Len(bannedKeywords) :
              includes(toLowerCase(content), bannedKeywords[k])
        THEN <<"banned-keyword">> ELSE <<>>)

----------------------------------------------------------------------------
(* api/stream: admission control *)

\* `${roomId}:${actor}`
RateKey(roomId, actor) == roomId \o <<":">> \o actor

\* a window that already ends at resetAt itself: now >= entry.resetAt
WindowExpired_Inclusive(store, key, t) ==
    key \notin DOMAIN store \/ JsGe(t, store[key].resetAt)

\* !entry || now > entry.resetAt
WindowExpired(store, key, t) ==
    key \notin DOMAIN store \/ JsGt(t, store[key].resetAt)

\* entry.count >= max
QuotaUsed(entry, max) == JsGe(entry.count, max)

\* checkRateLimit(key, max, windowMs) at Date.now() = t:
\* the value returned and the rateLimitStore it leaves
checkRateLimit(store, key, max, windowMs, t) ==
    IF WindowExpired(store, key, t)
    THEN [allowed |-> TRUE, retryAfterMs |-> UndefNum,
          store |-> MapSet(store, key, [count |-> 1, resetAt |-> JsAdd(t, windowMs)])]
    ELSE IF QuotaUsed(store[key], max)
    THEN [allowed |-> FALSE, retryAfterMs |-> JsSub(store[key].resetAt, t),
          store |-> store]
    ELSE [allowed |-> TRUE, retryAfterMs |-> UndefNum,
          store |-> MapSet(store, key, [store[key] EXCEPT !.count = @ + 1])]

\* slowModeStore.get(rateKey) ?? 0
LastAcceptedAt(store, key) == IF key \in DOMAIN store THEN store[key] ELSE 0

\* a slow mode that still denies at exactly slowModeMs: now - lastAt <= slowModeMs
SlowModeDenies_Inclusive(store, key, slowModeMs, t) ==
    /\ JsGt(slowModeMs, 0)
    /\ ~JsGt(JsSub(t, LastAcceptedAt(store, key)), slowModeMs)

\* settings.slowModeMs > 0 && now - lastAt < settings.slowModeMs
SlowModeDenies(store, key, slowModeMs, t) ==
    /\ JsGt(slowModeMs, 0)
    /\ JsLt(JsSub(t, LastAcceptedAt(store, key)), slowModeMs)

----------------------------------------------------------------------------
(* Inputs *)

UndefAttachments == <<"<undefined>">>

\* the usage report a generation ends with: v4 names, v5 names, or none
Usages ==
    {[promptTokens |-> 2, completionTokens |-> 1, totalTokens |-> 3],
     [inputTokens |-> 1, outputTokens |-> 1],
     EmptyMap}

----------------------------------------------------------------------------
(* Initial state: the modules have been loaded, nothing has been requested *)

NoResponse == [op |-> "none", status |-> 0, retryAfterMs |-> UndefNum, retryAfter |-> UndefNum]
NoBroadcast == [status |-> 0, roomId |-> EmptyStr, message |-> [type |-> "none"],
                members |-> {}, open |-> {}, delivered |-> {}, failed |-> {}]

\* connect() has not been called; timers holds the ids of the timeouts that
\* are set and have neither fired nor been cleared
NoSession ==
    [started |-> FALSE, tornDown |-> FALSE, shouldReconnect |-> TRUE,
     reconnectDelay |-> 0, reconnectTimer |-> 0, timerPending |-> FALSE,
     isIntentionalClose |-> FALSE, ws |-> 0, sockets |-> <<>>, opened |-> <<>>,
     scheduled |-> <<>>, timers |-> {}]

\* components/Chat as mounted: useState and useRef initial values; sends counts
\* the calls of sendMessages, http and ws hold, per call, the text read from
\* the HTTP response and the number of room events of the response delivered;
\* others holds the same number for each response to another member's
\* message, awaited is the number of the response the client last began to
\* wait for (its own calls first, then the others')
NoChat ==
    [messages |-> <<>>, streaming |-> <<>>, streamingAccumulator |-> <<>>,
     isLoading |-> FALSE, wsDone |-> FALSE, stopRequested |-> FALSE,
     abort |-> 0, http |-> <<>>, ws |-> <<>>, stopped |-> {},
     others |-> <<>>, awaited |-> 0]

Init ==
    /\ now = StartTime
    /\ nextUuid = 0
    /\ messages = <<>>
    /\ roomStats = EmptyMap
    /\ roomSettings = EmptyMap
    /\ moderationLogs = <<>>
    /\ rateLimitStore = EmptyMap
    /\ slowModeStore = EmptyMap
    /\ reqs = <<>>
    /\ resp = NoResponse
    /\ rooms = EmptyMap
    /\ readyState = [c \in {} |-> "OPEN"]
    /\ connRoom = EmptyMap
    /\ inbox = EmptyMap
    /\ ingested = <<>>
    /\ lastBroadcast = NoBroadcast
    /\ users = EmptyMap
    /\ session = NoSession
    /\ chat = NoChat

\* time passes between two handler runs
Tick ==
    /\ now + TickMs <= StartTime + MaxTicks * TickMs
    /\ now' = now + TickMs
    /\ UNCHANGED <<nextUuid, storeVars, admVars, reqs, resp, wsVars, users, session, chat>>

----------------------------------------------------------------------------
(* app/actions: streamRoomReply, up to its first await *)

\* const messageId = clientMessageId ?? randomUUID()
MessageIdFor(clientMessageId, n) ==
    IF clientMessageId = NoId THEN Uuid(n) ELSE clientMessageId

\* an orchestrator that persists without looking the id up
PersistsUserMessage_NoLookup(msgs, lastRole, messageId) == lastRole = "user"

\* if (userMessage?.role === "user") { const existing = getMessage(messageId); if (!existing) ...
PersistsUserMessage(msgs, lastRole, messageId) ==
    lastRole = "user" /\ ~HasMessage(msgs, messageId)

UserMessage(roomId, messageId, content, senderId, attachments, flags, t) ==
    [id |-> messageId, roomId |-> roomId, role |-> "user", content |-> content,
     createdAt |-> t, senderId |-> OrElse(senderId, Str_anonymous),
     attachments |-> attachments, flags |-> flags]

UserMessageEvent(messageId, content, senderId, attachments, flags) ==
    [type |-> "user-message", id |-> messageId, content |-> content,
     senderId |-> OrElse(senderId, Str_anonymous),
     attachments |-> attachments, flags |-> flags]

\* the state of one streamRoomReply invocation
\*   pc        "bcastUser": awaiting broadcastToRoom(user-message);
\*             "streaming": streamText has been called and the response returned;
\*             "rejected": the await has thrown, streamRoomReply has rejected
\*   sent      the messages this invocation has called broadcastToRoom with,
\*             in the order of the calls
\*   gen       the generation collaborator: "idle", "running", "ok", "error"
\*   produced  the fragments generated so far (what the direct response carries)
\*   relayed   how many of them the background loop has taken from textStream
\*   loop      the background loop: "idle" (not started), "reading" (awaiting the
\*             next fragment), "sending" (awaiting broadcastToRoom(token)),
\*             "failing" (in catch, awaiting broadcastToRoom(error)), "done", "failed",
\*             "crashed" (the await in the catch block has thrown)
\*   fin       onFinish: "none", "bcastAssistant", "bcastDone", "finished",
\*             "rejected" (an await of onFinish has thrown)
NewRequest(roomId, lastRole, messageId, senderId, persisted, event, t) ==
    [roomId |-> roomId, lastRole |-> lastRole, messageId |-> messageId,
     senderId |-> senderId,
     persisted |-> persisted, startedAt |-> t,
     pc |-> IF persisted THEN "bcastUser" ELSE "streaming",
     sent |-> IF persisted THEN <<event>> ELSE <<>>,
     gen |-> IF persisted THEN "idle" ELSE "running",
     produced |-> <<>>,
     relayed |-> 0, loop |-> IF persisted THEN "idle" ELSE "reading",
     fin |-> "none", assistantId |-> NoId]

\* streamRoomReply(roomId, messages, senderId, clientMessageId, attachments, flags)
\* from its call to its first await (or to its return when nothing is persisted)
StreamRoomReplyStart(roomId, lastRole, content, senderId, clientMessageId, attachments, flags) ==
    LET messageId == MessageIdFor(clientMessageId, nextUuid)
        persisted == PersistsUserMessage(messages, lastRole, messageId)
        event == UserMessageEvent(messageId, content, senderId, attachments, flags)
        stats == getRoomStats(roomStats, roomId)
    IN  /\ nextUuid' = IF clientMessageId = NoId THEN nextUuid + 1 ELSE nextUuid
        /\ messages' =
              IF persisted
              THEN saveMessage(messages,
                      UserMessage(roomId, messageId, content, senderId, attachments, flags, now))
              ELSE messages
        /\ roomStats' =
              IF persisted
              THEN updateRoomStats(roomStats, roomId, [userMessages |-> stats.userMessages + 1])
              ELSE roomStats
        /\ reqs' = Append(reqs, NewRequest(roomId, lastRole, messageId, senderId,
                                              persisted, event, now))

----------------------------------------------------------------------------
(* api/stream: POST *)

\* const flags = lastUser?.content ? detectFlags(lastUser.content) : []
FlagsFor(lastRole, content) ==
    IF lastRole # "none" /\ content # EmptyStr THEN detectFlags(content) ELSE <<>>

RateLimited(retryAfterMs) ==
    [op |-> "stream", status |-> 429, retryAfterMs |-> retryAfterMs,
     retryAfter |-> CeilSeconds(IF retryAfterMs = UndefNum THEN 0 ELSE retryAfterMs)]

\* POST /api/stream with body {roomId, messages, senderId, clientMessageId, attachments};
\* lastRole is the role of messages[messages.length - 1] ("none": empty array),
\* content its content; cap bounds the invocations of streamRoomReply in a run.
POST(cap, roomId, isArray, lastRole, content, senderId, clientMessageId, attachments) ==
    IF Falsy(roomId) \/ ~isArray
    THEN /\ resp' = [op |-> "stream", status |-> 400,
                     retryAfterMs |-> UndefNum, retryAfter |-> UndefNum]
         /\ UNCHANGED <<now, nextUuid, storeVars, admVars, reqs, wsVars, users, session, chat>>
    ELSE
      LET actor == OrElse(senderId, Str_anonymous)
          settings == getRoomSettings(roomSettings, roomId)
          rateKey == RateKey(roomId, actor)
          rate == checkRateLimit(rateLimitStore, rateKey, settings.rateLimitMax,
                                 settings.rateLimitWindowMs, now)
      IN  /\ rateLimitStore' = rate.store
          /\ IF ~rate.allowed
             THEN /\ resp' = RateLimited(rate.retryAfterMs)
                  /\ UNCHANGED <<now, nextUuid, storeVars, slowModeStore, reqs, wsVars, users, session, chat>>
             ELSE IF SlowModeDenies(slowModeStore, rateKey, settings.slowModeMs, now)
             THEN /\ resp' = RateLimited(
                                JsSub(settings.slowModeMs,
                                      JsSub(now, LastAcceptedAt(slowModeStore, rateKey))))
                  /\ UNCHANGED <<now, nextUuid, storeVars, slowModeStore, reqs, wsVars, users, session, chat>>
             ELSE /\ Len(reqs) < cap
                  /\ slowModeStore' =
                        IF JsGt(settings.slowModeMs, 0)
                        THEN MapSet(slowModeStore, rateKey, now)
                        ELSE slowModeStore
                  /\ StreamRoomReplyStart(roomId, lastRole, content, senderId,
                                          clientMessageId, attachments,
                                          FlagsFor(lastRole, content))
                  /\ resp' = [op |-> "stream", status |-> 200,
                              retryAfterMs |-> UndefNum, retryAfter |-> UndefNum]
                  /\ UNCHANGED <<now, roomSettings, moderationLogs, wsVars, users, session, chat>>

----------------------------------------------------------------------------
(* api/admin/settings: PATCH *)

\* Number.isFinite(x) ? Math.max(lo, Number(x)) : undefined
Clamped(lo, x) == IF IsNum(x) THEN MathMax(lo, x) ELSE UndefNum

MinRateLimitMax == 1
MinRateLimitWindowMs == 1000
MinSlowModeMs == 0

\* JSON.stringify of an object of numbers, as the members the text holds: a
\* member whose value is undefined is left out
JsonStringify(obj) == [k \in {f \in DOMAIN obj : obj[f] # UndefNum} |-> obj[k]]

\* the updates object the handler builds: all three keys are always present
SettingsUpdates(rateLimitMax, rateLimitWindowMs, slowModeMs) ==
    [rateLimitMax |-> Clamped(MinRateLimitMax, rateLimitMax),
     rateLimitWindowMs |-> Clamped(MinRateLimitWindowMs, rateLimitWindowMs),
     slowModeMs |-> Clamped(MinSlowModeMs, slowModeMs)]

\* PATCH /api/admin/settings with body {roomId, rateLimitMax, rateLimitWindowMs,
\* slowModeMs, actor}; a field the body omits is UndefNum
PatchSettings(roomId, rateLimitMax, rateLimitWindowMs, slowModeMs, actor) ==
    IF Falsy(roomId)
    THEN /\ resp' = [op |-> "settings", status |-> 400,
                     retryAfterMs |-> UndefNum, retryAfter |-> UndefNum]
         /\ UNCHANGED <<now, nextUuid, storeVars, admVars, reqs, wsVars, users, session, chat>>
    ELSE /\ Len(moderationLogs) < MaxSettingsUpdates
         /\ roomSettings' =
               updateRoomSettings(roomSettings, roomId,
                   SettingsUpdates(rateLimitMax, rateLimitWindowMs, slowModeMs))
         /\ moderationLogs' =
               addModerationLog(moderationLogs,
                   [roomId |-> roomId, action |-> "settings.update", actor |-> actor,
                    details |-> JsonStringify([rateLimitMax |-> rateLimitMax,
                                               rateLimitWindowMs |-> rateLimitWindowMs,
                                               slowModeMs |-> slowModeMs])],
                   Uuid(nextUuid), now)
         /\ nextUuid' = nextUuid + 1
         /\ resp' = [op |-> "settings", status |-> 200,
                     retryAfterMs |-> UndefNum, retryAfter |-> UndefNum]
         /\ UNCHANGED <<now, messages, roomStats, admVars, reqs, wsVars, users, session, chat>>

\* lib/db updateRoomSettings called with a partial object that holds only the
\* keys it sets
DirectUpdateRoomSettings(roomId, updates) ==
    /\ roomSettings' = updateRoomSettings(roomSettings, roomId, updates)
    /\ resp' = [op |-> "updateRoomSettings", status |-> 0,
                retryAfterMs |-> UndefNum, retryAfter |-> UndefNum]
    /\ UNCHANGED <<now, nextUuid, messages, roomStats, moderationLogs, admVars, reqs, wsVars, users, session, chat>>

----------------------------------------------------------------------------
(* The rate-limit specification: one room at its default settings, requests *)
(* to POST /api/stream against the clock                                    *)

AdmRoom == <<"r", "1">>
AdmContent == <<"h", "i">>

RatePost ==
    POST(MaxRateReqs, AdmRoom, TRUE, "user", AdmContent, <<"a">>, NoId, UndefAttachments)

RatePostInvalid ==
    \E roomId \in {EmptyStr, UndefStr, AdmRoom}, isArray \in BOOLEAN :
        /\ Falsy(roomId) \/ ~isArray
        /\ POST(MaxRateReqs, roomId, isArray, "user", AdmContent, <<"a">>, NoId, UndefAttachments)

NextRate == RatePost \/ RatePostInvalid \/ Tick

SpecRate == Init /\ [][NextRate]_vars

----------------------------------------------------------------------------
(* The admission specification: requests to POST /api/stream and settings   *)
(* changes, against the clock                                               *)

AdmPost ==
    /\ LET key == RateKey(AdmRoom, Str_anonymous)
       IN  IF key \in DOMAIN rateLimitStore
           THEN rateLimitStore[key].count < MaxCount
           ELSE TRUE
    /\ POST(MaxAdmReqs, AdmRoom, TRUE, "user", AdmContent, UndefStr, NoId, UndefAttachments)

\* request bodies: every field given, only slowModeMs given, only rateLimitMax given
PatchBodies ==
    {<<0, 2 * TickMs, 2 * TickMs>>, <<UndefNum, UndefNum, 2 * TickMs>>, <<2, UndefNum, UndefNum>>}

AdmPatch ==
    \E body \in PatchBodies :
        PatchSettings(AdmRoom, body[1], body[2], body[3], <<"a", "d", "m">>)

AdmPatchInvalid ==
    \E roomId \in {EmptyStr, UndefStr} :
        PatchSettings(roomId, 2, 2 * TickMs, TickMs, <<"a", "d", "m">>)

\* partial objects for a direct call of updateRoomSettings
DirectUpdates ==
    {[slowModeMs |-> 2 * TickMs], [rateLimitMax |-> 1, rateLimitWindowMs |-> 2 * TickMs]}

AdmDirectUpdate ==
    \E updates \in DirectUpdates :
        /\ updateRoomSettings(roomSettings, AdmRoom, updates) # roomSettings
        /\ DirectUpdateRoomSettings(AdmRoom, updates)

NextAdm == AdmPost \/ AdmPatch \/ AdmPatchInvalid \/ AdmDirectUpdate \/ Tick

SpecAdm == Init /\ [][NextAdm]_vars

----------------------------------------------------------------------------
(* ws-server: rooms, joinRoom, broadcast, the /broadcast and /health handlers *)

Str_lobby == <<"l", "o", "b", "b", "y">>

\* rooms.get(roomId), with the empty set standing for undefined
RoomClients(rms, roomId) == IF roomId \in DOMAIN rms THEN rms[roomId] ELSE {}

\* a send that puts the frame before the frames already queued
send_Prepend(box, frame) == <<frame>> \o box

\* client.send(message): the frame joins the connection's outgoing frames
send(box, frame) == Append(box, frame)

\* a check that lets every member through, whatever its readyState
IsOpen_Ignored(rs, c) == TRUE

\* client.readyState === WebSocket.OPEN
IsOpen(rs, c) == rs[c] = "OPEN"

\* a loop that a throwing send() ends: nobody is evicted, nobody else is served
broadcast_AbortOnThrow(rms, rs, box, roomId, frame, failing) ==
    LET roomClients == RoomClients(rms, roomId)
        attempted == {c \in roomClients : IsOpen(rs, c)}
    IN  IF attempted \cap failing # {}
        THEN [rooms |-> rms, inbox |-> box, delivered |-> {}, failed |-> attempted \cap failing]
        ELSE [rooms |-> rms,
              inbox |-> [c \in DOMAIN box |->
                            IF c \in attempted THEN send(box[c], frame) ELSE box[c]],
              delivered |-> attempted, failed |-> {}]

\* broadcast(roomId, data): failing is the set of connections whose send()
\* throws during this call. Every member is visited once; what happens to one
\* member does not depend on the others, so the visiting order is immaterial.
broadcast(rms, rs, box, roomId, frame, failing) ==
    IF roomId \notin DOMAIN rms
    THEN [rooms |-> rms, inbox |-> box, delivered |-> {}, failed |-> {}]
    ELSE LET roomClients == rms[roomId]
             attempted == {c \in roomClients : IsOpen(rs, c)}
             failed == attempted \cap failing
         IN  [rooms |-> [rms EXCEPT ![roomId] = roomClients \ failed],
              inbox |-> [c \in DOMAIN box |->
                            IF c \in attempted \ failed THEN send(box[c], frame) ELSE box[c]],
              delivered |-> attempted \ failed,
              failed |-> failed]

\* JavaScript values that carry their type
Undefined == [type |-> "undefined"]
JsString(s) == [type |-> "string", value |-> s]
JsBoolean(b) == [type |-> "boolean", value |-> b]
JsNumber(n) == [type |-> "number", value |-> n]
\* an object: its own properties in insertion order, each <<key, value>>
JsObject(entries) == [type |-> "object", entries |-> entries]

Quote == "\""
Backslash == "\\"

\* a serializer that writes the characters of a string as they are
Escape_None(s) == s

\* JSON.stringify on the characters of a string: the quotation mark and the
\* backslash are escaped (the strings of the model hold no control characters)
RECURSIVE Escape(_)
Escape(s) ==
    IF s = <<>> THEN <<>>
    ELSE (IF Head(s) \in {Quote, Backslash} THEN <<Backslash, Head(s)>> ELSE <<Head(s)>>)
             \o Escape(Tail(s))

QuoteString(s) == <<Quote>> \o Escape(s) \o <<Quote>>

\* JSON.stringify(v) for a string or an object of such values
RECURSIVE StringifyValue(_), StringifyEntries(_)
StringifyValue(v) ==
    IF v.type = "string" THEN QuoteString(v.value)
    ELSE <<"{">> \o StringifyEntries(v.entries) \o <<"}">>
StringifyEntries(es) ==
    IF es = <<>> THEN <<>>
    ELSE QuoteString(es[1][1]) \o <<":">> \o StringifyValue(es[1][2])
             \o (IF Len(es) > 1 THEN <<",">> ELSE <<>>) \o StringifyEntries(Tail(es))

ParseFailure == [ok |-> FALSE]

\* the characters of a string literal after its opening quotation mark
RECURSIVE ParseStringBody(_, _)
ParseStringBody(t, acc) ==
    IF t = <<>> THEN ParseFailure
    ELSE IF Head(t) = Quote THEN [ok |-> TRUE, value |-> acc, rest |-> Tail(t)]
    ELSE IF Head(t) = Backslash
         THEN IF Len(t) >= 2 /\ t[2] \in {Quote, Backslash}
              THEN ParseStringBody(Tail(Tail(t)), Append(acc, t[2]))
              ELSE ParseFailure
    ELSE ParseStringBody(Tail(t), Append(acc, Head(t)))

\* JSON.parse on a text of string literals and objects, without white space
RECURSIVE ParseValue(_), ParseEntries(_, _)
ParseValue(t) ==
    IF t = <<>> THEN ParseFailure
    ELSE IF Head(t) = Quote
         THEN LET p == ParseStringBody(Tail(t), <<>>)
              IN  IF p.ok THEN [p EXCEPT !.value = JsString(@)] ELSE ParseFailure
    ELSE IF Head(t) = "{"
         THEN IF Len(t) >= 2 /\ t[2] = "}"
              THEN [ok |-> TRUE, value |-> JsObject(<<>>), rest |-> Tail(Tail(t))]
              ELSE ParseEntries(Tail(t), <<>>)
    ELSE ParseFailure
ParseEntries(t, acc) ==
    IF t = <<>> \/ Head(t) # Quote THEN ParseFailure
    ELSE LET k == ParseStringBody(Tail(t), <<>>)
         IN  IF ~k.ok \/ k.rest = <<>> \/ Head(k.rest) # ":" THEN ParseFailure
             ELSE LET v == ParseValue(Tail(k.rest))
                  IN  IF ~v.ok \/ v.rest = <<>> THEN ParseFailure
                      ELSE LET entries == Append(acc, <<k.value, v.value>>)
                           IN  IF Head(v.rest) = "}"
                               THEN [ok |-> TRUE, value |-> JsObject(entries),
                                     rest |-> Tail(v.rest)]
                               ELSE IF Head(v.rest) = ","
                                    THEN ParseEntries(Tail(v.rest), entries)
                                    ELSE ParseFailure

\* JSON.parse(text); a SyntaxError is the value ParseFailure
JsonParse(text) ==
    LET p == ParseValue(text)
    IN  IF p.ok /\ p.rest = <<>> THEN p.value ELSE ParseFailure

\* const message = typeof data === "string" ? data : JSON.stringify(data)
WireText(data) == IF data.type = "string" THEN data.value ELSE StringifyValue(data)

\* the frame of the n-th invocation of broadcast: text is what client.send is
\* given
Frame(n, roomId, data) == [n |-> n, roomId |-> roomId, data |-> data, text |-> WireText(data)]

\* absent or falsy `message` in the request body
NoMessage == [type |-> "<undefined>"]

\* POST /broadcast with body {roomId, message}; validJson: the body parses
Ingest(roomId, message, validJson, failing) ==
    IF ~validJson \/ Falsy(roomId) \/ message = NoMessage
    THEN /\ lastBroadcast' = [NoBroadcast EXCEPT !.status = 400]
         /\ UNCHANGED <<rooms, readyState, connRoom, inbox, ingested>>
    ELSE LET n == Len(ingested) + 1
             members == RoomClients(rooms, roomId)
             out == broadcast(rooms, readyState, inbox, roomId,
                              Frame(n, roomId, message), failing)
         IN  /\ rooms' = out.rooms
             /\ inbox' = out.inbox
             /\ ingested' = Append(ingested, [roomId |-> roomId, message |-> message])
             /\ lastBroadcast' =
                   [status |-> 200, roomId |-> roomId, message |-> message,
                    members |-> members,
                    open |-> {c \in members : readyState[c] = "OPEN"},
                    delivered |-> out.delivered, failed |-> out.failed]
             /\ UNCHANGED <<readyState, connRoom>>

\* GET /health: { status: "ok", rooms: rooms.size }
HealthRooms == Cardinality(DOMAIN rooms)

\* String(query.roomId ?? "lobby")
RoomOfQuery(roomId) == OrElse(roomId, Str_lobby)

\* joinRoom(roomId, ws): the room's set is created on demand
joinRoom(rms, roomId, c) == MapSet(rms, roomId, RoomClients(rms, roomId) \cup {c})

\* wss.on("connection"): a new connection handle c, open, joins its room and
\* registers the close handler bound to that roomId
Connect(c, queryRoomId) ==
    /\ c \notin DOMAIN readyState
    /\ readyState' = MapSet(readyState, c, "OPEN")
    /\ connRoom' = MapSet(connRoom, c, RoomOfQuery(queryRoomId))
    /\ inbox' = MapSet(inbox, c, <<>>)
    /\ rooms' = joinRoom(rooms, RoomOfQuery(queryRoomId), c)
    /\ UNCHANGED <<ingested, lastBroadcast>>

\* the closing handshake starts: the socket is no longer OPEN, its "close"
\* event has not been emitted yet
StartClosing(c) ==
    /\ c \in DOMAIN readyState
    /\ readyState[c] = "OPEN"
    /\ readyState' = [readyState EXCEPT ![c] = "CLOSING"]
    /\ UNCHANGED <<rooms, connRoom, inbox, ingested, lastBroadcast>>

\* ws.on("close"): rooms.get(roomId)?.delete(ws); an empty room is removed
leaveRoom(rms, roomId, c) ==
    IF roomId \notin DOMAIN rms THEN rms
    ELSE IF rms[roomId] \ {c} = {} THEN MapDelete(rms, roomId)
    ELSE [rms EXCEPT ![roomId] = @ \ {c}]

CloseEvent(c) ==
    /\ c \in DOMAIN readyState
    /\ readyState[c] \in {"OPEN", "CLOSING"}
    /\ readyState' = [readyState EXCEPT ![c] = "CLOSED"]
    /\ rooms' = leaveRoom(rooms, connRoom[c], c)
    /\ UNCHANGED <<connRoom, inbox, ingested, lastBroadcast>>

----------------------------------------------------------------------------
(* app/actions: streamRoomReply after its first await, onFinish and the     *)
(* background token loop                                                    *)

\* a mean that gives the newest response half the weight
AvgResponseMs_Unweighted(avg, totalResponses, responseMs) ==
    DoubleDiv(DoubleAdd(avg, FromInt(responseMs)), 2)

\* (stats.avgResponseMs * stats.totalResponses + responseMs) / totalResponses
AvgResponseMs(avg, totalResponses, responseMs) ==
    DoubleDiv(DoubleAdd(DoubleMul(avg, totalResponses), FromInt(responseMs)),
              totalResponses + 1)

\* tokenUsage?.a ?? tokenUsage?.b ?? 0
UsageField(usage, a, b) ==
    IF a \in DOMAIN usage THEN usage[a]
    ELSE IF b \in DOMAIN usage THEN usage[b]
    ELSE 0

\* the object onFinish passes to updateRoomStats
FinishStats(stats, usage, responseMs) ==
    LET promptTokens == UsageField(usage, "promptTokens", "inputTokens")
        completionTokens == UsageField(usage, "completionTokens", "outputTokens")
        totalTokens == IF "totalTokens" \in DOMAIN usage THEN usage.totalTokens
                       ELSE promptTokens + completionTokens
    IN  [assistantMessages |-> stats.assistantMessages + 1,
         lastResponseMs |-> responseMs,
         avgResponseMs |-> AvgResponseMs(stats.avgResponseMs, stats.totalResponses, responseMs),
         totalResponses |-> stats.totalResponses + 1,
         tokenUsage |-> [prompt |-> stats.tokenUsage.prompt + promptTokens,
                         completion |-> stats.tokenUsage.completion + completionTokens,
                         total |-> stats.tokenUsage.total + totalTokens]]

\* the text of a generation: its fragments, concatenated
RECURSIVE Text(_)
Text(fragments) ==
    IF fragments = <<>> THEN EmptyStr ELSE Head(fragments) \o Text(Tail(fragments))

\* an assistant message that drops the generated text
AssistantMessage_NoText(roomId, id, text, t) ==
    [id |-> id, roomId |-> roomId, role |-> "assistant", content |-> EmptyStr,
     createdAt |-> t, senderId |-> Str_assistant]

AssistantMessage(roomId, id, text, t) ==
    [id |-> id, roomId |-> roomId, role |-> "assistant", content |-> text,
     createdAt |-> t, senderId |-> Str_assistant]

TokenEvent(delta) == [type |-> "token", delta |-> delta]
AssistantMessageEvent(id, text) == [type |-> "assistant-message", id |-> id, content |-> text]
DoneEvent == [type |-> "done"]
\* a catch block that reports the end of the response instead of an error
ErrorEvent_AsDone == [type |-> "done"]

ErrorEvent == [type |-> "error", message |-> "Streaming error"]

\* broadcastToRoom(roomId, message) is called: its fetch is in flight
Issue(r, message) == [r EXCEPT !.sent = Append(@, message)]

\* a broadcastToRoom without its try/catch: a failing fetch rejects the await
broadcastToRoom_NoCatch(fetchOk) == IF fetchOk THEN "returned" ELSE "thrown"

\* how an await of broadcastToRoom ends; fetchOk: the fetch resolves, rather
\* than throwing (ingestion endpoint unreachable). try { await fetch(...) }
\* catch (err) { console.error(...) }: the exception is logged and swallowed.
broadcastToRoom(fetchOk) == IF fetchOk THEN "returned" ELSE "returned"

InternalServerError ==
    [op |-> "stream", status |-> 500, retryAfterMs |-> UndefNum, retryAfter |-> UndefNum]

\* the await of broadcastToRoom(user-message) returns: streamText is called,
\* the background loop starts and awaits the first fragment, the response is
\* returned
UserMessageBroadcast(i, fetchOk) ==
    LET r == reqs[i]
        returned == broadcastToRoom(fetchOk) = "returned"
    IN  /\ r.pc = "bcastUser"
        /\ reqs' = [reqs EXCEPT ![i] =
                      IF returned
                      THEN [r EXCEPT !.pc = "streaming", !.gen = "running",
                                     !.loop = "reading"]
                      ELSE [r EXCEPT !.pc = "rejected"]]
        /\ resp' = IF returned THEN resp ELSE InternalServerError
        /\ UNCHANGED <<now, nextUuid, storeVars, admVars, wsVars, users, session, chat>>

\* the generation yields a fragment; a loop that awaits the next fragment
\* takes it and calls broadcastToRoom(token), a loop that awaits a broadcast
\* leaves it buffered in textStream
GenFragment(i, delta) ==
    LET r == reqs[i]
        idle == r.loop = "reading"
        q == [r EXCEPT !.produced = Append(@, delta),
                       !.relayed = IF idle THEN @ + 1 ELSE @,
                       !.loop = IF idle THEN "sending" ELSE @]
    IN  /\ r.gen = "running"
        /\ Len(r.produced) < MaxFragments
        /\ reqs' = [reqs EXCEPT ![i] = IF idle THEN Issue(q, TokenEvent(delta)) ELSE q]
        /\ UNCHANGED <<now, nextUuid, storeVars, admVars, resp, wsVars, users, session, chat>>

\* the generation completes and onFinish({text, usage}) runs up to its first
\* await; a loop that awaits the next fragment ends
OnFinish(i, usage) ==
    LET r == reqs[i]
        assistantId == Uuid(nextUuid)
        text == Text(r.produced)
        stats == getRoomStats(roomStats, r.roomId)
        responseMs == now - r.startedAt
        q == [r EXCEPT !.gen = "ok", !.fin = "bcastAssistant",
                       !.assistantId = assistantId,
                       !.loop = IF @ = "reading" THEN "done" ELSE @]
    IN  /\ r.gen = "running"
        /\ nextUuid' = nextUuid + 1
        /\ messages' = saveMessage(messages, AssistantMessage(r.roomId, assistantId, text, now))
        /\ roomStats' = updateRoomStats(roomStats, r.roomId, FinishStats(stats, usage, responseMs))
        /\ reqs' = [reqs EXCEPT ![i] = Issue(q, AssistantMessageEvent(assistantId, text))]
        /\ UNCHANGED <<now, roomSettings, moderationLogs, admVars, resp, wsVars, users, session, chat>>

\* the generation fails: onFinish is never called; a loop that awaits the
\* next fragment enters its catch block and calls broadcastToRoom(error)
GenError(i) ==
    LET r == reqs[i]
        idle == r.loop = "reading"
        q == [r EXCEPT !.gen = "error", !.loop = IF idle THEN "failing" ELSE @]
    IN  /\ r.gen = "running"
        /\ reqs' = [reqs EXCEPT ![i] = IF idle THEN Issue(q, ErrorEvent) ELSE q]
        /\ UNCHANGED <<now, nextUuid, storeVars, admVars, resp, wsVars, users, session, chat>>

\* the await of broadcastToRoom(token) returns and the loop asks textStream
\* for the next fragment: the stream has failed, or holds a buffered fragment,
\* or has ended, or is still open
TokenBroadcast(i, fetchOk) ==
    LET r == reqs[i]
        more == r.relayed < Len(r.produced)
        returned == broadcastToRoom(fetchOk) = "returned"
    IN  /\ r.loop = "sending"
        /\ reqs' = [reqs EXCEPT ![i] =
                      IF ~returned \/ r.gen = "error"
                      THEN Issue([r EXCEPT !.loop = "failing"], ErrorEvent)
                      ELSE IF more
                      THEN Issue([r EXCEPT !.relayed = @ + 1],
                                 TokenEvent(r.produced[r.relayed + 1]))
                      ELSE [r EXCEPT !.loop = IF r.gen = "ok" THEN "done" ELSE "reading"]]
        /\ UNCHANGED <<now, nextUuid, storeVars, admVars, resp, wsVars, users, session, chat>>

\* the await of broadcastToRoom(error) in the catch block returns
ErrorBroadcast(i, fetchOk) ==
    LET r == reqs[i]
    IN  /\ r.loop = "failing"
        /\ reqs' = [reqs EXCEPT ![i] =
                      [r EXCEPT !.loop = IF broadcastToRoom(fetchOk) = "returned"
                                         THEN "failed" ELSE "crashed"]]
        /\ UNCHANGED <<now, nextUuid, storeVars, admVars, resp, wsVars, users, session, chat>>

\* onFinish: the await of broadcastToRoom(assistant-message) returns and
\* broadcastToRoom(done) is called
AssistantMessageBroadcast(i, fetchOk) ==
    LET r == reqs[i]
    IN  /\ r.fin = "bcastAssistant"
        /\ reqs' = [reqs EXCEPT ![i] =
                      IF broadcastToRoom(fetchOk) = "returned"
                      THEN Issue([r EXCEPT !.fin = "bcastDone"], DoneEvent)
                      ELSE [r EXCEPT !.fin = "rejected"]]
        /\ UNCHANGED <<now, nextUuid, storeVars, admVars, resp, wsVars, users, session, chat>>

\* onFinish: the await of broadcastToRoom(done) returns
DoneBroadcast(i, fetchOk) ==
    LET r == reqs[i]
    IN  /\ r.fin = "bcastDone"
        /\ reqs' = [reqs EXCEPT ![i] =
                      [r EXCEPT !.fin = IF broadcastToRoom(fetchOk) = "returned"
                                        THEN "finished" ELSE "rejected"]]
        /\ UNCHANGED <<now, nextUuid, storeVars, admVars, resp, wsVars, users, session, chat>>

----------------------------------------------------------------------------
(* The orchestrator specification: requests to POST /api/stream, the         *)
(* generations they start and the broadcasts these cause                     *)

StreamRoom == <<"r", "1">>
StreamContent == <<"h", "i">>
StreamSender == <<"a">>
\* request bodies: the role of the last history entry and the clientMessageId
StreamBodies == {<<"user", <<"c", 1>>>>, <<"user", NoId>>, <<"assistant", <<"c", 1>>>>}

StreamPost ==
    \E body \in StreamBodies :
        POST(MaxStreamReqs, StreamRoom, TRUE, body[1], StreamContent, StreamSender,
             body[2], UndefAttachments)

StreamPostInvalid ==
    POST(MaxStreamReqs, UndefStr, TRUE, "user", StreamContent, StreamSender, NoId,
         UndefAttachments)

\* the k-th fragment of a generation
FragmentAt(k) == IF k % 2 = 1 THEN <<"x">> ELSE <<"y">>

StreamStep ==
    \E i \in 1..Len(reqs) :
        \/ \E fetchOk \in BOOLEAN : UserMessageBroadcast(i, fetchOk)
        \/ GenFragment(i, FragmentAt(Len(reqs[i].produced) + 1))
        \/ \E usage \in Usages : OnFinish(i, usage)
        \/ GenError(i)
        \/ \E fetchOk \in BOOLEAN : TokenBroadcast(i, fetchOk)
        \/ \E fetchOk \in BOOLEAN : ErrorBroadcast(i, fetchOk)
        \/ \E fetchOk \in BOOLEAN : AssistantMessageBroadcast(i, fetchOk)
        \/ \E fetchOk \in BOOLEAN : DoneBroadcast(i, fetchOk)

\* The clock stands still in this specification: no step of the orchestrator
\* reads it except to stamp createdAt and to measure responseMs.
Next == StreamPost \/ StreamPostInvalid \/ StreamStep

Spec == Init /\ [][Next]_vars

----------------------------------------------------------------------------
(* The orchestrator with the ingestion endpoint unreachable: every fetch of  *)
(* broadcastToRoom throws                                                     *)

DownPost ==
    \E body \in StreamBodies :
        POST(MaxDownReqs, StreamRoom, TRUE, body[1], StreamContent, StreamSender,
             body[2], UndefAttachments)

DownStep ==
    \E i \in 1..Len(reqs) :
        \/ UserMessageBroadcast(i, FALSE)
        \/ GenFragment(i, FragmentAt(Len(reqs[i].produced) + 1))
        \/ \E usage \in Usages : OnFinish(i, usage)
        \/ GenError(i)
        \/ TokenBroadcast(i, FALSE)
        \/ ErrorBroadcast(i, FALSE)
        \/ AssistantMessageBroadcast(i, FALSE)
        \/ DoneBroadcast(i, FALSE)

NextDown == DownPost \/ DownStep \/ Tick

SpecDown == Init /\ [][NextDown]_vars

----------------------------------------------------------------------------
(* The response-time specification: generations that take time; the request  *)
(* bodies end with an assistant entry, so that no user message is persisted  *)

TimedPost ==
    /\ \A i \in 1..Len(reqs) : reqs[i].fin = "finished" \/ reqs[i].loop = "failed"
    /\ POST(MaxTimedReqs, StreamRoom, TRUE, "assistant", StreamContent, StreamSender,
            NoId, UndefAttachments)

TimedStep ==
    \E i \in 1..Len(reqs) :
        \/ OnFinish(i, EmptyMap)
        \/ GenError(i)
        \/ \E fetchOk \in BOOLEAN : ErrorBroadcast(i, fetchOk)
        \/ \E fetchOk \in BOOLEAN : AssistantMessageBroadcast(i, fetchOk)
        \/ \E fetchOk \in BOOLEAN : DoneBroadcast(i, fetchOk)

TimedTick ==
    /\ now < StartTime + MaxTimedTicks * TickMs
    /\ Tick

NextTimed == TimedPost \/ TimedStep \/ TimedTick

SpecTimed == Init /\ [][NextTimed]_vars

----------------------------------------------------------------------------
(* Stream orchestrator: properties *)

\* the invocations that submit a user message under this id
UserSubmissions(id) ==
    {i \in 1..Len(reqs) : reqs[i].messageId = id /\ reqs[i].lastRole = "user"}

SubmittedIds == {reqs[i].messageId : i \in {j \in 1..Len(reqs) : reqs[j].lastRole = "user"}}

StoredWith(id) == {k \in 1..Len(messages) : messages[k].id = id}

\* the calls of broadcastToRoom with a 'user-message' event for this id
UserMessageBroadcasts(id) ==
    {c \in UNION {{<<i, k>> : k \in 1..Len(reqs[i].sent)} : i \in 1..Len(reqs)} :
        /\ reqs[c[1]].sent[c[2]].type = "user-message"
        /\ reqs[c[1]].sent[c[2]].id = id}

\* C1: however many times, and in whatever interleaving, a user message is
\* submitted to streamRoomReply under one message id, the store holds exactly
\* one message with that id (a user message), exactly one 'user-message'
\* broadcast has been sent for it, and userMessages has been incremented once
\* for it: the room's userMessages equals the number of submitted ids.
C1_IdempotentResubmission ==
    /\ \A id \in SubmittedIds :
          /\ Cardinality(StoredWith(id)) = 1
          /\ \A k \in StoredWith(id) : messages[k].role = "user"
          /\ Cardinality(UserMessageBroadcasts(id)) = 1
    /\ getRoomStats(roomStats, StreamRoom).userMessages = Cardinality(SubmittedIds)

\* the same client message id has been submitted twice, and the second
\* invocation has completed its generation while the first still awaits its
\* 'user-message' broadcast
C1_Witness ==
    /\ Len(reqs) = 2
    /\ UserSubmissions(<<"c", 1>>) = {1, 2}
    /\ reqs[1].pc = "bcastUser"
    /\ reqs[2].fin = "finished"

\* the deltas of the 'token' events of a log, in the order of the log
RECURSIVE TokensOf(_)
TokensOf(log) ==
    IF log = <<>> THEN <<>>
    ELSE IF Head(log).type = "token" THEN <<Head(log).delta>> \o TokensOf(Tail(log))
    ELSE TokensOf(Tail(log))

IsPrefix(a, b) == Len(a) <= Len(b) /\ SubSeq(b, 1, Len(a)) = a

\* in a log of broadcasts, every event of type a comes before every event of type b
AllBefore(log, a, b) ==
    \A p, q \in 1..Len(log) : log[p].type = a /\ log[q].type = b => p < q

\* the positions of a log that hold an event of this type
EventsOf(log, type) == {k \in 1..Len(log) : log[k].type = type}

\* the stored assistant messages of a room
AssistantMessages(roomId) ==
    {k \in 1..Len(messages) : messages[k].roomId = roomId /\ messages[k].role = "assistant"}

\* the invocations whose generation has completed
Completed == {i \in 1..Len(reqs) : reqs[i].gen = "ok"}

\* what an invocation whose generation has failed has done and left
FailedGenerationInv(i) ==
    LET r == reqs[i]
    IN  /\ r.fin = "none"
        /\ r.assistantId = NoId
        /\ EventsOf(r.sent, "assistant-message") = {}
        /\ EventsOf(r.sent, "done") = {}
        /\ r.loop \in {"sending", "failing", "failed"}
        /\ r.loop # "sending" =>
              /\ Cardinality(EventsOf(r.sent, "error")) = 1
              /\ r.sent[Len(r.sent)] = [type |-> "error", message |-> "Streaming error"]
        /\ r.lastRole = "user" =>
              \E k \in StoredWith(r.messageId) : messages[k].role = "user"

\* C14: when the generation of an invocation fails, the invocation sends one
\* 'error' broadcast (its last one) once its token loop has reached the
\* failure, never an 'assistant-message' or 'done'; it persists no assistant
\* message; the failure and every later step of that invocation leave the
\* store and the room's stats as they are, so that the stats count completed
\* generations only; the user message of the request stays in the store.
C14_GenerationFailure ==
    /\ [](/\ \A i \in 1..Len(reqs) : reqs[i].gen = "error" => FailedGenerationInv(i)
          /\ Cardinality(AssistantMessages(StreamRoom)) = Cardinality(Completed)
          /\ getRoomStats(roomStats, StreamRoom).assistantMessages = Cardinality(Completed)
          /\ getRoomStats(roomStats, StreamRoom).totalResponses = Cardinality(Completed))
    /\ [][\A i \in 1..Len(reqs) :
             reqs'[i] # reqs[i] /\ reqs'[i].gen = "error" =>
                 /\ roomStats' = roomStats
                 /\ messages' = messages]_vars

\* a generation has failed after its first fragment, the 'error' broadcast has
\* been sent, and the user message of the request is stored
C14_Witness ==
    \E i \in 1..Len(reqs) :
        /\ reqs[i].gen = "error"
        /\ reqs[i].persisted
        /\ Len(reqs[i].produced) >= 1
        /\ reqs[i].loop = "failed"

\* C15: with every fetch to the ingestion endpoint failing, no await of
\* broadcastToRoom throws into streamRoomReply, onFinish or the token loop
\* (nothing is rejected, no 500 is answered); the user message is persisted;
\* the response is returned and carries the generation's fragments; a
\* completed generation has persisted the assistant message with the whole
\* text and has been counted in the room's stats.
C15_BroadcastFailureSwallowed ==
    /\ resp.status # 500
    /\ getRoomStats(roomStats, StreamRoom).assistantMessages = Cardinality(Completed)
    /\ getRoomStats(roomStats, StreamRoom).totalResponses = Cardinality(Completed)
    /\ \A i \in 1..Len(reqs) :
          LET r == reqs[i]
          IN  /\ r.pc \in {"bcastUser", "streaming"}
              /\ r.fin # "rejected"
              /\ r.loop # "crashed"
              /\ r.lastRole = "user" =>
                    \E k \in StoredWith(r.messageId) : messages[k].role = "user"
              /\ r.gen = "ok" =>
                    /\ r.pc = "streaming"
                    /\ \E k \in StoredWith(r.assistantId) :
                          /\ messages[k].role = "assistant"
                          /\ messages[k].content = Text(r.produced)

\* a request has run to its end with every broadcast failing: user message
\* persisted, two fragments generated and relayed, onFinish and the token loop
\* both through
C15_Witness ==
    /\ Len(reqs) = 1
    /\ reqs[1].persisted
    /\ reqs[1].gen = "ok"
    /\ Len(reqs[1].produced) = 2
    /\ reqs[1].fin = "finished"
    /\ reqs[1].loop = "done"
    /\ Len(reqs[1].sent) = 5

\* the position in the store of the assistant message invocation i persisted
AssistantAt(i) == CHOOSE k \in 1..Len(messages) : messages[k].id = reqs[i].assistantId

\* the elapsed time of a completed response: from the start of streamRoomReply
\* to the run of onFinish
ElapsedMs(i) == messages[AssistantAt(i)].createdAt - reqs[i].startedAt

RECURSIVE SumElapsed(_)
SumElapsed(S) ==
    IF S = {} THEN 0
    ELSE LET i == CHOOSE x \in S : TRUE IN ElapsedMs(i) + SumElapsed(S \ {i})

\* the invocation that completed last: its assistant message is the last stored
LastCompleted == CHOOSE i \in Completed : \A j \in Completed : AssistantAt(j) <= AssistantAt(i)

\* the original reading of C16: avgResponseMs * totalResponses, as the
\* program computes the product, is the sum of the elapsed times
C16_ExactProduct ==
    LET stats == getRoomStats(roomStats, StreamRoom)
    IN  DoubleMul(stats.avgResponseMs, stats.totalResponses)
            = FromInt(SumElapsed(Completed))

\* six responses that take no measurable time, then one of 30000ms: the mean
\* is the double nearest to 30000/7, and seven times it is not 30000
C16_RoundedMean ==
    /\ Cardinality(Completed) = 7
    /\ SumElapsed(Completed) = 30000
    /\ ~C16_ExactProduct

\* C16: after any sequence of completed responses in a room, totalResponses
\* is their number, lastResponseMs is the elapsed time of the one completed
\* last, and avgResponseMs * totalResponses differs from the sum of their
\* elapsed times by less than one millisecond; up to six responses the product
\* is the sum exactly.
C16_RunningMean ==
    LET stats == getRoomStats(roomStats, StreamRoom)
        sum == SumElapsed(Completed)
        product == DoubleMul(stats.avgResponseMs, stats.totalResponses)
    IN  /\ stats.totalResponses = Cardinality(Completed)
        /\ Completed # {} => stats.lastResponseMs = ElapsedMs(LastCompleted)
        /\ sum = 0 => product = DoubleZero
        /\ sum > 0 => /\ DoubleLt(FromInt(sum - 1), product)
                      /\ DoubleLt(product, FromInt(sum + 1))
        /\ stats.totalResponses <= 6 => product = FromInt(sum)

\* a response of 10000ms, then one of 20000ms: the mean is 15000, the last 20000
C16_Witness ==
    /\ Completed = {1, 2}
    /\ AssistantAt(1) < AssistantAt(2)
    /\ ElapsedMs(1) = 10000
    /\ ElapsedMs(2) = 20000
    /\ roomStats[StreamRoom].avgResponseMs = FromInt(15000)
    /\ roomStats[StreamRoom].lastResponseMs = 20000

\* C2: in one streamRoomReply whose generation succeeds, the 'user-message'
\* broadcast is sent before every 'token' broadcast, the 'token' broadcasts are
\* sent in generation order and all of them before the 'assistant-message'
\* broadcast, which is sent before 'done'.
C2_BroadcastOrder ==
    \A i \in 1..Len(reqs) :
        reqs[i].gen = "ok" =>
            /\ AllBefore(reqs[i].sent, "user-message", "token")
            /\ IsPrefix(TokensOf(reqs[i].sent), reqs[i].produced)
            /\ AllBefore(reqs[i].sent, "token", "assistant-message")
            /\ AllBefore(reqs[i].sent, "assistant-message", "done")
            /\ reqs[i].loop = "done" /\ reqs[i].fin = "finished" =>
                  TokensOf(reqs[i].sent) = reqs[i].produced

----------------------------------------------------------------------------
(* The broadcast-server specification *)

Conns == 1..MaxConns
WsRoom == <<"r", "1">>
\* {"type":"done"}, {"type":"token","delta":"x\""} and the string hi
WsDone == JsObject(<< <<(<<"t", "y", "p", "e">>), JsString(<<"d", "o", "n", "e">>)>> >>)
WsToken ==
    JsObject(<< <<(<<"t", "y", "p", "e">>), JsString(<<"t", "o", "k", "e", "n">>)>>,
                <<(<<"d", "e", "l", "t", "a">>), JsString(<<"x", Quote>>)>> >>)
WsMessages == {WsToken, JsString(<<"h", "i">>)}
nonWs == <<now, nextUuid, storeVars, admVars, reqs, resp, users, session, chat>>

WsConnect ==
    /\ \E c \in Conns, roomId \in {WsRoom, UndefStr} :
          /\ \A d \in Conns : d < c => d \in DOMAIN readyState
          /\ Connect(c, roomId)
    /\ UNCHANGED nonWs

WsStartClosing == (\E c \in Conns : StartClosing(c)) /\ UNCHANGED nonWs

WsCloseEvent == (\E c \in Conns : CloseEvent(c)) /\ UNCHANGED nonWs

WsIngest ==
    /\ Len(ingested) < MaxBroadcasts
    /\ \E roomId \in {WsRoom, Str_lobby}, message \in WsMessages :
          \E failing \in SUBSET {c \in RoomClients(rooms, roomId) : readyState[c] = "OPEN"} :
              Ingest(roomId, message, TRUE, failing)
    /\ UNCHANGED nonWs

WsIngestInvalid ==
    /\ \E body \in {<<WsRoom, WsDone, FALSE>>,
                      <<EmptyStr, WsDone, TRUE>>,
                      <<WsRoom, NoMessage, TRUE>>} :
          Ingest(body[1], body[2], body[3], {})
    /\ UNCHANGED nonWs

NextWS == WsConnect \/ WsStartClosing \/ WsCloseEvent \/ WsIngest \/ WsIngestInvalid

SpecWS == Init /\ [][NextWS]_vars

----------------------------------------------------------------------------
(* Broadcast server: properties *)

WsRooms == {WsRoom, Str_lobby}

\* connection c is handed exactly the frame of this invocation
Receives(c, roomId, message) ==
    inbox'[c] = Append(inbox[c], Frame(Len(ingested) + 1, roomId, message))

\* members of roomId that are open when broadcast is invoked
OpenMembers(roomId) == {c \in RoomClients(rooms, roomId) : readyState[c] = "OPEN"}

\* connections that joined roomId and have not closed
JoinedAndOpen(roomId) ==
    {c \in DOMAIN readyState : connRoom[c] = roomId /\ readyState[c] = "OPEN"}

\* when the last member of a room closes, the room leaves the room map
LastCloseRemovesRoom ==
    \A c \in Conns :
        (CloseEvent(c) /\ RoomClients(rooms, connRoom[c]) \subseteq {c}) =>
            /\ connRoom[c] \notin DOMAIN rooms'
            /\ connRoom[c] \in DOMAIN rooms => HealthRooms' = HealthRooms - 1

\* a step in which broadcast is invoked; the step records the invocation as
\* the last element of ingested' and the sends that threw in lastBroadcast'
BroadcastStep == Len(ingested') = Len(ingested) + 1
Invoked == ingested'[Len(ingested')]
Threw == lastBroadcast'.failed

\* C3 (as amended): broadcast(roomId, event) delivers the event to exactly the
\* connections that are in roomId's member set and open and whose send does
\* not throw; a connection that has closed or is closing, that joined another
\* room, or that was evicted after a failed delivery does not receive it; and
\* once the last member of a room closes the room is no longer counted.
C3_DeliversToOpenMembers ==
    [][/\ BroadcastStep =>
            /\ Threw \subseteq OpenMembers(Invoked.roomId)
            /\ \A c \in DOMAIN readyState :
                  IF c \in OpenMembers(Invoked.roomId) \ Threw
                  THEN Receives(c, Invoked.roomId, Invoked.message)
                  ELSE inbox'[c] = inbox[c]
       /\ LastCloseRemovesRoom]_vars

\* C3 as stated: every connection that joined the room and has not closed
\* receives the event of a broadcast in which no send fails
C3_JoinedAndOpenReceive ==
    [][(BroadcastStep /\ Threw = {}) =>
          \A c \in JoinedAndOpen(Invoked.roomId) :
              Receives(c, Invoked.roomId, Invoked.message)]_vars

\* a broadcast reached one member while another member of the room was
\* closing and a third connection sat in another room
C3_Witness ==
    /\ lastBroadcast.status = 200
    /\ lastBroadcast.delivered # {}
    /\ lastBroadcast.failed = {}
    /\ lastBroadcast.members \ lastBroadcast.open # {}
    /\ \E c \in DOMAIN connRoom : connRoom[c] # lastBroadcast.roomId
    /\ \A c \in lastBroadcast.delivered :
          /\ inbox[c] # <<>>
          /\ inbox[c][Len(inbox[c])].data = lastBroadcast.message

\* C4: every room key in the room map has at least one member, so /health
\* counts exactly the rooms that have a connection.
C4_NoEmptyRoom ==
    /\ \A roomId \in DOMAIN rooms : rooms[roomId] # {}
    /\ HealthRooms = Cardinality({roomId \in DOMAIN rooms : rooms[roomId] # {}})

\* C5: when a send fails during broadcast, that member is removed from the
\* room's set and is not sent the event again, every other open member still
\* receives it, and the /broadcast handler answers 200.
C5_FailedDeliveryEvicts ==
    [][(BroadcastStep /\ Threw # {}) =>
          /\ lastBroadcast'.status = 200
          /\ \A c \in Threw :
                /\ c \in OpenMembers(Invoked.roomId)
                /\ c \notin RoomClients(rooms', Invoked.roomId)
                /\ inbox'[c] = inbox[c]
          /\ \A c \in OpenMembers(Invoked.roomId) \ Threw :
                /\ Receives(c, Invoked.roomId, Invoked.message)
                /\ c \in RoomClients(rooms', Invoked.roomId)]_vars

\* one send failed, another member of the same room was served
C5_Witness ==
    /\ lastBroadcast.status = 200
    /\ lastBroadcast.failed # {}
    /\ lastBroadcast.delivered # {}
    /\ \A c \in lastBroadcast.failed : c \notin RoomClients(rooms, lastBroadcast.roomId)

\* C6: a connection receives the events of its room in the order broadcast
\* was invoked, and the event of one invocation at most once.
C6_InvocationOrder ==
    \A c \in DOMAIN inbox :
        /\ \A i, j \in 1..Len(inbox[c]) : i < j => inbox[c][i].n < inbox[c][j].n
        /\ \A i \in 1..Len(inbox[c]) :
              LET f == inbox[c][i]
              IN  /\ f.n \in 1..Len(ingested)
                  /\ f.roomId = connRoom[c]
                  /\ ingested[f.n] = [roomId |-> f.roomId, message |-> f.data]

\* a connection holds two different events of two invocations
C6_Witness ==
    \E c \in DOMAIN inbox :
        /\ Len(inbox[c]) >= 2
        /\ inbox[c][1].data # inbox[c][2].data

----------------------------------------------------------------------------
(* Admission control: properties *)

RateKeyA == RateKey(AdmRoom, <<"a">>)
RateKeyAnon == RateKey(AdmRoom, Str_anonymous)

\* the requests of a key that were admitted at or after time t0
AcceptedSince(key, t0) ==
    {i \in 1..Len(reqs) :
        /\ RateKey(reqs[i].roomId, OrElse(reqs[i].senderId, Str_anonymous)) = key
        /\ reqs[i].startedAt >= t0}

\* the entry counts the admitted requests of its window and never exceeds max
RateCountInv ==
    \A key \in DOMAIN rateLimitStore :
        LET entry == rateLimitStore[key]
        IN  /\ entry.count >= 1
            /\ entry.count <= DefaultRateLimitMax
            /\ entry.count =
                 Cardinality(AcceptedSince(key, entry.resetAt - DefaultRateLimitWindowMs))

\* what one attempt of key <<room, "a">> does at the default settings; atBoundary
\* is what the denial's retryAfterMs must satisfy
RateStep(RetryOk(_)) ==
    LET key == RateKeyA
        inWindow == key \in DOMAIN rateLimitStore /\ now <= rateLimitStore[key].resetAt
    IN  RatePost =>
          IF ~inWindow
          THEN /\ resp'.status = 200
               /\ rateLimitStore'[key] =
                     [count |-> 1, resetAt |-> now + DefaultRateLimitWindowMs]
          ELSE IF rateLimitStore[key].count < DefaultRateLimitMax
          THEN /\ resp'.status = 200
               /\ rateLimitStore'[key] =
                     [count |-> rateLimitStore[key].count + 1,
                      resetAt |-> rateLimitStore[key].resetAt]
          ELSE /\ resp'.status = 429
               /\ resp'.retryAfterMs = rateLimitStore[key].resetAt - now
               /\ RetryOk(resp'.retryAfterMs)
               /\ rateLimitStore' = rateLimitStore

NonNegative(ms) == ms >= 0
Positive(ms) == ms > 0

\* C7 (as amended): with rateLimitMax = 5 and rateLimitWindowMs = 20000, the
\* entry of a key counts the attempts admitted in its window and never exceeds
\* 5; an attempt in the window (now <= windowResetAt) is admitted while the
\* count is below 5 and is otherwise denied with retryAfterMs = windowResetAt -
\* now, which is >= 0 (0 for an attempt made exactly at windowResetAt); the
\* first attempt with now > windowResetAt is admitted and resets the entry to
\* count = 1, windowResetAt = now + 20000.
C7_RateLimitWindow == [](RateCountInv) /\ [][RateStep(NonNegative)]_vars

\* C7 as stated: every denial carries retryAfterMs > 0
C7_RetryAfterPositive == [][RateStep(Positive)]_vars

\* the sixth attempt of a window has just been denied
C7_Witness ==
    /\ RateKeyA \in DOMAIN rateLimitStore
    /\ rateLimitStore[RateKeyA].count = DefaultRateLimitMax
    /\ resp.status = 429
    /\ resp.retryAfterMs = TickMs
    /\ Len(reqs) > DefaultRateLimitMax

\* the settings an attempt in AdmRoom is decided with
AdmSettings == getRoomSettings(roomSettings, AdmRoom)

\* the rate limit admits the next attempt of the key
RateAdmits(key) ==
    \/ key \notin DOMAIN rateLimitStore
    \/ JsGt(now, rateLimitStore[key].resetAt)
    \/ ~JsGe(rateLimitStore[key].count, AdmSettings.rateLimitMax)

\* every recorded lastAcceptedAt is the time an admitted request started
SlowStoreInv ==
    \A key \in DOMAIN slowModeStore :
        \E i \in 1..Len(reqs) :
            /\ RateKey(reqs[i].roomId, OrElse(reqs[i].senderId, Str_anonymous)) = key
            /\ reqs[i].startedAt = slowModeStore[key]

\* one attempt of the anonymous sender with slow mode on; Passes is the
\* condition under which the slow-mode rule is claimed to apply
SlowStep(Passes(_)) ==
    LET key == RateKeyAnon
        S == AdmSettings.slowModeMs
        lastAcceptedAt == LastAcceptedAt(slowModeStore, key)
    IN  (AdmPost /\ IsNum(S) /\ S > 0 /\ Passes(key)) =>
          IF now - lastAcceptedAt < S
          THEN /\ resp'.status = 429
               /\ resp'.retryAfterMs = S - (now - lastAcceptedAt)
               /\ slowModeStore' = slowModeStore
          ELSE /\ resp'.status = 200
               /\ slowModeStore'[key] = now

\* lastAcceptedAt changes only in a step that admits a request
SlowStoreStep ==
    slowModeStore' # slowModeStore =>
        /\ resp'.status = 200
        /\ Len(reqs') = Len(reqs) + 1

Always(key) == TRUE

\* C8 (as amended): with slowModeMs = S > 0, an attempt that the rate limit
\* admits and that is made less than S after the key's lastAcceptedAt is denied
\* with remaining wait S - (now - lastAcceptedAt); an attempt that the rate
\* limit admits and that is made S or more after it is allowed and becomes the
\* new lastAcceptedAt; lastAcceptedAt is only ever set by an admitted request,
\* to that request's time.
C8_SlowMode ==
    [](SlowStoreInv) /\ [][SlowStep(RateAdmits) /\ SlowStoreStep]_vars

\* C8 as stated: the slow-mode rule decides every attempt
C8_SlowModeDecidesAlone == [][SlowStep(Always) /\ SlowStoreStep]_vars

\* slow mode has just denied an attempt made TickMs after the last admitted one
C8_Witness ==
    /\ RateKeyAnon \in DOMAIN slowModeStore
    /\ AdmSettings.slowModeMs = 2 * TickMs
    /\ now - slowModeStore[RateKeyAnon] = TickMs
    /\ resp.op = "stream"
    /\ resp.status = 429
    /\ resp.retryAfterMs = TickMs
    /\ resp.retryAfter = TickMs \div 1000

\* C9: a request denied with 429 mutates nothing: the rate entry, the
\* slow-mode timestamp, the message store and the room stats are as before the
\* request and nothing is broadcast.
C9_DenialMutatesNothing ==
    [][(AdmPost /\ resp'.status = 429) =>
          UNCHANGED <<rateLimitStore, slowModeStore, messages, roomStats,
                      reqs, ingested>>]_vars

\* C10: a settings update keeps every field it does not specify, through
\* updateRoomSettings directly and through the admin settings endpoint.
C10_UnspecifiedSettingsKept ==
    [][/\ \A body \in PatchBodies :
            PatchSettings(AdmRoom, body[1], body[2], body[3], <<"a", "d", "m">>) =>
                /\ body[1] = UndefNum =>
                      roomSettings'[AdmRoom].rateLimitMax = AdmSettings.rateLimitMax
                /\ body[2] = UndefNum =>
                      roomSettings'[AdmRoom].rateLimitWindowMs = AdmSettings.rateLimitWindowMs
                /\ body[3] = UndefNum =>
                      roomSettings'[AdmRoom].slowModeMs = AdmSettings.slowModeMs
       /\ AdmDirectUpdate =>
            \A f \in {"rateLimitMax", "rateLimitWindowMs", "slowModeMs"} :
                \/ roomSettings'[AdmRoom][f] = AdmSettings[f]
                \/ \E updates \in DirectUpdates :
                      /\ f \in DOMAIN updates
                      /\ roomSettings' = updateRoomSettings(roomSettings, AdmRoom, updates)
      ]_vars

----------------------------------------------------------------------------
(* The moderation-log specification: calls of lib/db addModerationLog *)

\* addModerationLog(entry): randomUUID() and Date.now() stamp the entry
AddModerationLog(entry) ==
    /\ moderationLogs' = addModerationLog(moderationLogs, entry, Uuid(nextUuid), now)
    /\ nextUuid' = nextUuid + 1
    /\ resp' = [op |-> "addModerationLog", status |-> 0,
                retryAfterMs |-> UndefNum, retryAfter |-> UndefNum]
    /\ UNCHANGED <<now, messages, roomStats, roomSettings, admVars, reqs, wsVars, users, session, chat>>

\* listModerationLogs(): a copy of the log
listModerationLogs(logs) == logs

LogEntry == [roomId |-> <<"r", "1">>, action |-> "message.delete", actor |-> <<"a", "d", "m">>]

LogCall == nextUuid < MaxLogCalls /\ AddModerationLog(LogEntry)

NextLog == LogCall

SpecLog == Init /\ [][NextLog]_vars

\* the smaller of two numbers
Min(a, b) == IF a < b THEN a ELSE b

\* C11: after any sequence of addModerationLog calls the log holds at most
\* 200 entries, newest first, and they are the 200 newest: the k-th listed
\* entry is the k-th most recent insertion, so the 201st insertion has removed
\* exactly the oldest entry.
C11_ModerationLogCap ==
    LET logs == listModerationLogs(moderationLogs)
    IN  /\ Len(logs) = Min(nextUuid, 200)
        /\ \A k \in 1..Len(logs) : logs[k].id = Uuid(nextUuid - k)

\* the 201st insertion has happened
C11_Witness ==
    /\ nextUuid = 201
    /\ Len(moderationLogs) = 200
    /\ moderationLogs[200].id = Uuid(1)

----------------------------------------------------------------------------
(* lib/ws: connect(roomId, onEvent), the client session *)

InitialReconnectDelay == 1000
MaxReconnectDelay == 30000

\* a backoff that doubles without a cap
NextReconnectDelay_Uncapped(delay) == delay * 2

\* Math.min(reconnectDelay * 2, 30000)
NextReconnectDelay(delay) == Min(delay * 2, MaxReconnectDelay)

\* a teardown that leaves a pending timer alone
clearTimeout_Ignored(pending, timer) == pending

\* if (reconnectTimer) window.clearTimeout(reconnectTimer): is a timeout still
\* pending afterwards; timer is the id setTimeout returned (0: undefined)
clearTimeout(pending, timer) == IF timer # 0 THEN FALSE ELSE pending

\* a timer that stays set after its callback has run
TimerFired_Interval(timers, t) == timers

\* window.setTimeout(callback, delay): the timeout is gone once its callback
\* has run
TimerFired(timers, t) == timers \ {t}

\* createWebSocket(): ws = new WebSocket(url), with its four handlers
createWebSocket(sess) ==
    [sess EXCEPT !.sockets = Append(@, "CONNECTING"),
                 !.opened = Append(@, FALSE),
                 !.ws = Len(sess.sockets) + 1]

nonSession == <<now, nextUuid, storeVars, admVars, reqs, resp, wsVars, users, chat>>

\* connect(roomId, onEvent); hasUrl: the WebSocket URL is configured
\* (without it connect returns a no-op teardown and creates nothing)
SessionConnect(hasUrl) ==
    /\ ~session.started
    /\ session' =
          IF hasUrl
          THEN createWebSocket([session EXCEPT !.started = TRUE,
                                               !.reconnectDelay = InitialReconnectDelay])
          ELSE [session EXCEPT !.started = TRUE, !.tornDown = TRUE]
    /\ UNCHANGED nonSession

\* ws.onopen of the s-th socket: the connection is established
SessionOpen(s) ==
    /\ s \in 1..Len(session.sockets)
    /\ session.sockets[s] = "CONNECTING"
    /\ session' = [session EXCEPT !.sockets[s] = "OPEN",
                                  !.opened[s] = TRUE,
                                  !.reconnectDelay = InitialReconnectDelay,
                                  !.isIntentionalClose = FALSE]
    /\ UNCHANGED nonSession

\* ws.onclose of the s-th socket: the connection attempt has failed, or the
\* connection was lost, or the closing handshake that teardown started has
\* ended
SessionClose(s) ==
    /\ s \in 1..Len(session.sockets)
    /\ session.sockets[s] # "CLOSED"
    /\ session' =
          LET closed == [session EXCEPT !.sockets[s] = "CLOSED"]
          IN  IF session.shouldReconnect /\ ~session.isIntentionalClose
              THEN [closed EXCEPT
                        !.reconnectTimer = Len(session.scheduled) + 1,
                        !.timerPending = TRUE,
                        !.timers = @ \cup {Len(session.scheduled) + 1},
                        !.scheduled = Append(@, session.reconnectDelay),
                        !.reconnectDelay = NextReconnectDelay(session.reconnectDelay)]
              ELSE closed
    /\ UNCHANGED nonSession

\* a reconnect timer fires: createWebSocket()
SessionTimer ==
    /\ Len(session.sockets) < MaxSockets
    /\ \E t \in session.timers :
           session' = createWebSocket(
                          [session EXCEPT
                              !.timers = TimerFired(@, t),
                              !.timerPending = IF t = session.reconnectTimer
                                               THEN FALSE ELSE @])
    /\ UNCHANGED nonSession

\* the teardown function connect() returned
SessionTeardown ==
    /\ session.started
    /\ ~session.tornDown
    /\ session' =
          [session EXCEPT
              !.tornDown = TRUE,
              !.shouldReconnect = FALSE,
              !.isIntentionalClose = TRUE,
              !.timerPending = clearTimeout(session.timerPending, session.reconnectTimer),
              !.timers = IF clearTimeout(TRUE, session.reconnectTimer)
                         THEN @ ELSE @ \ {session.reconnectTimer},
              !.sockets = IF session.ws # 0 /\ @[session.ws] \in {"OPEN", "CONNECTING"}
                          THEN [@ EXCEPT ![session.ws] = "CLOSING"]
                          ELSE @]
    /\ UNCHANGED nonSession

\* ws.onopen on a socket teardown has already called close() on while it was
\* connecting: whether the open event can still be delivered is left to the
\* browser; the handler runs, the socket goes on closing
SessionLateOpen ==
    /\ session.ws # 0
    /\ session.sockets[session.ws] = "CLOSING"
    /\ ~session.opened[session.ws]
    /\ session' = [session EXCEPT !.opened[session.ws] = TRUE,
                                  !.reconnectDelay = InitialReconnectDelay,
                                  !.isIntentionalClose = FALSE]
    /\ UNCHANGED nonSession

NextClient ==
    \/ \E hasUrl \in BOOLEAN : SessionConnect(hasUrl)
    \/ \E s \in 1..MaxSockets : SessionOpen(s)
    \/ SessionLateOpen
    \/ \E s \in 1..MaxSockets : SessionClose(s)
    \/ SessionTimer
    \/ SessionTeardown

SpecClient == Init /\ [][NextClient]_vars


----------------------------------------------------------------------------
(* Client session: properties *)

\* the delay the k-th socket's close is to schedule the reconnect with
RECURSIVE ExpectedDelay(_)
ExpectedDelay(k) ==
    IF k = 1 \/ session.opened[k] THEN 1000
    ELSE Min(2 * ExpectedDelay(k - 1), 30000)

\* C12: the reconnect scheduled when a connection that had been established
\* is lost, or when the first attempt fails, has a delay of 1000ms; the one
\* scheduled when a reconnect attempt fails has twice the delay of the one
\* before it (2000, 4000, 8000, 16000), and no delay exceeds 30000ms.
C12_ReconnectBackoff ==
    \A k \in 1..Len(session.scheduled) :
        /\ session.scheduled[k] = ExpectedDelay(k)
        /\ session.scheduled[k] <= 30000

\* six attempts failed in a row, the seventh connected and was lost: the cap
\* was reached and the delay is back at 1000ms
C12_Witness ==
    /\ Len(session.scheduled) = 7
    /\ session.scheduled[5] = 16000
    /\ session.scheduled[6] = 30000
    /\ session.opened[7]
    /\ session.scheduled[7] = 1000

\* C13: once teardown has been called no reconnect timer is pending, and no
\* step schedules a reconnect or creates a WebSocket.
C13_TeardownIsFinal ==
    /\ [](session.tornDown => ~session.timerPending)
    /\ [][session.tornDown =>
             /\ session'.scheduled = session.scheduled
             /\ Len(session'.sockets) = Len(session.sockets)]_vars

\* teardown came while a reconnect timer was pending (every socket has closed
\* and scheduled a reconnect, the last timer never fired)
C13_Witness ==
    /\ session.tornDown
    /\ Len(session.sockets) = 2
    /\ Len(session.scheduled) = 2
    /\ ~session.timerPending

----------------------------------------------------------------------------
(* lib/db: reading and editing stored messages *)

\* the index messages.findIndex((m) => m.id === id) finds, counted from 1;
\* 0 if there is none
FindIndex(msgs, id) ==
    IF HasMessage(msgs, id)
    THEN CHOOSE i \in 1..Len(msgs) :
            /\ msgs[i].id = id
            /\ \A j \in 1..(i - 1) : msgs[j].id # id
    ELSE 0

\* message[f] ?? d, for the fields reactions and flags, which no caller stores
\* as undefined or null
FieldOr(message, f, d) == IF f \in DOMAIN message THEN message[f] ELSE d

\* arr.includes(x)
Includes(arr, x) == \E i \in 1..Len(arr) : arr[i] = x

\* Array.from(new Set(arr)): the distinct elements, in order of first occurrence
RECURSIVE ArrayFromSet(_)
ArrayFromSet(arr) ==
    IF arr = <<>> THEN <<>>
    ELSE LET rest == ArrayFromSet(SubSeq(arr, 1, Len(arr) - 1))
             last == arr[Len(arr)]
         IN  IF Includes(rest, last) THEN rest ELSE Append(rest, last)

\* set.delete(x) on the insertion-ordered elements of a Set
SetDelete(arr, x) == SelectSeq(arr, LAMBDA y : y # x)

\* a Record<string, string[]>: its entries <<[key, value], ...>> in insertion order
KeyIndex(obj, k) ==
    IF \E i \in 1..Len(obj) : obj[i].key = k
    THEN CHOOSE i \in 1..Len(obj) : obj[i].key = k
    ELSE 0

\* obj[k] ?? d
ObjGet(obj, k, d) == IF KeyIndex(obj, k) = 0 THEN d ELSE obj[KeyIndex(obj, k)].value

\* obj[k] = v: an existing key keeps its place, a new one goes last
ObjSet(obj, k, v) ==
    IF KeyIndex(obj, k) = 0 THEN Append(obj, [key |-> k, value |-> v])
    ELSE [obj EXCEPT ![KeyIndex(obj, k)].value = v]

\* delete obj[k]
ObjDelete(obj, k) == SelectSeq(obj, LAMBDA p : p.key # k)

\* messages.filter((m) => m.roomId === roomId): a new array
FilterRoom(msgs, roomId) == SelectSeq(msgs, LAMBDA m : m.roomId = roomId)

\* m put behind the elements of the sorted array that are not newer than it
InsertByCreatedAt(sorted, m) ==
    LET k == Cardinality({i \in 1..Len(sorted) : sorted[i].createdAt <= m.createdAt})
    IN  SubSeq(sorted, 1, k) \o <<m>> \o SubSeq(sorted, k + 1, Len(sorted))

\* arr.sort((a, b) => a.createdAt - b.createdAt): Array.prototype.sort is stable
RECURSIVE SortByCreatedAt(_)
SortByCreatedAt(arr) ==
    IF arr = <<>> THEN <<>>
    ELSE InsertByCreatedAt(SortByCreatedAt(SubSeq(arr, 1, Len(arr) - 1)), arr[Len(arr)])

\* a listing that skips the sort
listMessages_Unsorted(msgs, roomId) == FilterRoom(msgs, roomId)

\* listMessages(roomId)
listMessages(msgs, roomId) == SortByCreatedAt(FilterRoom(msgs, roomId))

\* an update that writes the time of the call over the time of creation
updateMessage_Recreated(msgs, id, updates, t) ==
    LET index == FindIndex(msgs, id)
    IN  IF index = 0 THEN msgs
        ELSE [msgs EXCEPT ![index] =
                Spread(Spread(@, updates), [createdAt |-> t, updatedAt |-> t])]

\* Object.assign(message, updates, { updatedAt: Date.now() }) on the first
\* message with the id; nothing if there is none
updateMessage(msgs, id, updates, t) ==
    LET index == FindIndex(msgs, id)
    IN  IF index = 0 THEN msgs
        ELSE [msgs EXCEPT ![index] = Spread(Spread(@, updates), [updatedAt |-> t])]

\* an array that takes the flag once more
AddFlag_Append(currentFlags, flag) == Append(currentFlags, flag)

\* currentFlags.add(flag); Array.from(currentFlags)
AddFlag(currentFlags, flag) ==
    IF Includes(currentFlags, flag) THEN currentFlags ELSE Append(currentFlags, flag)

\* flagMessage(id, flag)
flagMessage(msgs, id, flag, t) ==
    LET index == FindIndex(msgs, id)
        currentFlags == ArrayFromSet(FieldOr(msgs[index], "flags", <<>>))
        added == AddFlag(currentFlags, flag)
    IN  IF index = 0 THEN msgs
        ELSE [msgs EXCEPT ![index] = Spread(@, [flags |-> added, updatedAt |-> t])]

\* resolveFlags(id)
resolveFlags(msgs, id, t) ==
    LET index == FindIndex(msgs, id)
    IN  IF index = 0 THEN msgs
        ELSE [msgs EXCEPT ![index] = Spread(@, [flags |-> <<>>, updatedAt |-> t])]

\* a toggle that never removes a reactor
ToggleMember_AddOnly(existing, userId) ==
    IF Includes(existing, userId) THEN existing ELSE Append(existing, userId)

\* if (existing.has(userId)) existing.delete(userId) else existing.add(userId)
ToggleMember(existing, userId) ==
    IF Includes(existing, userId) THEN SetDelete(existing, userId)
    ELSE Append(existing, userId)

\* the reactions object toggleReaction leaves on the message
ToggledReactions(message, emoji, userId) ==
    LET reactions == FieldOr(message, "reactions", <<>>)
        existing == ToggleMember(ArrayFromSet(ObjGet(reactions, emoji, <<>>)), userId)
    IN  IF Len(existing) = 0 THEN ObjDelete(reactions, emoji)
        ELSE ObjSet(reactions, emoji, existing)

\* toggleReaction(id, emoji, userId)
toggleReaction(msgs, id, emoji, userId, t) ==
    LET index == FindIndex(msgs, id)
    IN  IF index = 0 THEN msgs
        ELSE [msgs EXCEPT ![index] =
                Spread(@, [reactions |-> ToggledReactions(@, emoji, userId),
                           updatedAt |-> t])]

\* deleteMessage(id): messages.splice(index, 1) at the first message with the id
deleteMessage(msgs, id) ==
    LET index == FindIndex(msgs, id)
    IN  IF index = 0 THEN msgs
        ELSE SubSeq(msgs, 1, index - 1) \o SubSeq(msgs, index + 1, Len(msgs))

\* updateUser(user)
updateUser(us, user, t) ==
    MapSet(us, user.id,
           Spread(Spread(IF user.id \in DOMAIN us THEN us[user.id] ELSE EmptyMap, user),
                  [lastSeen |-> t]))

\* removeUser(userId)
removeUser(us, userId) == MapDelete(us, userId)

----------------------------------------------------------------------------
(* lib/db driven by its callers: one action per call, its return value in   *)
(* resp                                                                     *)

nonMessages ==
    <<now, nextUuid, roomStats, roomSettings, moderationLogs, admVars, reqs, wsVars,
      users, session, chat>>

SaveMessage(message) ==
    /\ messages' = saveMessage(messages, message)
    /\ resp' = [op |-> "saveMessage", id |-> message.id, message |-> message]
    /\ UNCHANGED nonMessages

\* listMessages(roomId): filter builds a new array, which sort orders in place
ListMessages(roomId) ==
    /\ resp' = [op |-> "listMessages", roomId |-> roomId,
                result |-> listMessages(messages, roomId)]
    /\ UNCHANGED <<messages, nonMessages>>

UpdateMessage(id, updates) ==
    /\ messages' = updateMessage(messages, id, updates, now)
    /\ resp' = [op |-> "updateMessage", id |-> id, found |-> HasMessage(messages, id)]
    /\ UNCHANGED nonMessages

FlagMessage(id, flag) ==
    /\ messages' = flagMessage(messages, id, flag, now)
    /\ resp' = [op |-> "flagMessage", id |-> id, found |-> HasMessage(messages, id)]
    /\ UNCHANGED nonMessages

ResolveFlags(id) ==
    /\ messages' = resolveFlags(messages, id, now)
    /\ resp' = [op |-> "resolveFlags", id |-> id, found |-> HasMessage(messages, id)]
    /\ UNCHANGED nonMessages

ToggleReaction(id, emoji, userId) ==
    /\ messages' = toggleReaction(messages, id, emoji, userId, now)
    /\ resp' = [op |-> "toggleReaction", id |-> id, found |-> HasMessage(messages, id)]
    /\ UNCHANGED nonMessages

DeleteMessage(id) ==
    /\ messages' = deleteMessage(messages, id)
    /\ resp' = [op |-> "deleteMessage", id |-> id, found |-> HasMessage(messages, id)]
    /\ UNCHANGED nonMessages

UpdateUser(user) ==
    /\ users' = updateUser(users, user, now)
    /\ resp' = [op |-> "updateUser", id |-> user.id]
    /\ UNCHANGED <<now, nextUuid, storeVars, admVars, reqs, wsVars, session, chat>>

RemoveUser(userId) ==
    /\ users' = removeUser(users, userId)
    /\ resp' = [op |-> "removeUser", id |-> userId]
    /\ UNCHANGED <<now, nextUuid, storeVars, admVars, reqs, wsVars, session, chat>>

UpdateRoomStats(roomId, updates) ==
    /\ roomStats' = updateRoomStats(roomStats, roomId, updates)
    /\ resp' = [op |-> "updateRoomStats", roomId |-> roomId]
    /\ UNCHANGED <<now, nextUuid, messages, roomSettings, moderationLogs, admVars, reqs,
                   wsVars, users, session, chat>>

----------------------------------------------------------------------------
(* The message-store specification: messages of two rooms saved, edited,    *)
(* deleted and listed, between calls on presence, statistics, settings and  *)
(* the moderation log                                                       *)

StoreIds == {<<"c", 1>>, <<"c", 2>>}
StoreRooms == {<<"r", "1">>, <<"r", "2">>}
StoreTimes == {StartTime - TickMs, StartTime}
StoreUser == [id |-> <<"u", "1">>, roomId |-> <<"r", "1">>, isTyping |-> TRUE]

StoreMessage(id, roomId, createdAt) ==
    [id |-> id, roomId |-> roomId, role |-> "user", content |-> <<"h", "i">>,
     createdAt |-> createdAt]

StoreSave ==
    /\ Len(messages) < MaxStored
    /\ \E id \in StoreIds, roomId \in StoreRooms, createdAt \in StoreTimes :
          SaveMessage(StoreMessage(id, roomId, createdAt))

StoreList == \E roomId \in StoreRooms : ListMessages(roomId)

StoreUpdate == \E id \in StoreIds : UpdateMessage(id, [content |-> <<"e", "d">>])

StoreDelete == \E id \in StoreIds : DeleteMessage(id)

StoreOther ==
    \/ StoreUser.id \notin DOMAIN users /\ UpdateUser(StoreUser)
    \/ StoreUser.id \in DOMAIN users /\ RemoveUser(StoreUser.id)
    \/ /\ getRoomStats(roomStats, StoreUser.roomId).userMessages < MaxStoreCalls
       /\ UpdateRoomStats(StoreUser.roomId,
            [userMessages |-> getRoomStats(roomStats, StoreUser.roomId).userMessages + 1])
    \/ /\ StoreUser.roomId \notin DOMAIN roomSettings
       /\ DirectUpdateRoomSettings(StoreUser.roomId, [slowModeMs |-> TickMs])
    \/ /\ Len(moderationLogs) < MaxStoreCalls
       /\ AddModerationLog(LogEntry)

NextStore == StoreSave \/ StoreList \/ StoreUpdate \/ StoreDelete \/ StoreOther

SpecStore == Init /\ [][NextStore]_vars

----------------------------------------------------------------------------
(* The message-edit specification: reactions and flags on stored messages   *)

Emojis == {<<"+", "1">>, <<":", ")">>}
Reactors == {<<"u", "1">>, <<"u", "2">>}
EditFlag == <<"s", "p", "a", "m">>

EditSave ==
    /\ Len(messages) < MaxEdited
    /\ \E id \in StoreIds : SaveMessage(StoreMessage(id, StoreUser.roomId, now))

EditToggle ==
    \E id \in StoreIds, emoji \in Emojis, userId \in Reactors :
        ToggleReaction(id, emoji, userId)

EditFlagged == <<"c", 1>>

EditFlags == FlagMessage(EditFlagged, EditFlag) \/ ResolveFlags(EditFlagged)

EditDelete == \E id \in StoreIds : DeleteMessage(id)

NextEdit == EditSave \/ EditToggle \/ EditFlags \/ EditDelete

SpecEdit == Init /\ [][NextEdit]_vars

----------------------------------------------------------------------------
(* Message edits: properties *)

\* the reactions of a message as the data model reads them: the set of
\* reactors of every emoji that has an entry; a message without the field has
\* no entry
ReactorSets(message) ==
    LET reactions == FieldOr(message, "reactions", <<>>)
    IN  [emoji \in {reactions[i].key : i \in 1..Len(reactions)} |->
            {ObjGet(reactions, emoji, <<>>)[j] :
                j \in 1..Len(ObjGet(reactions, emoji, <<>>))}]

\* no emoji entry of the message holds an empty array of reactors
NoEmptyReactors(message) ==
    LET reactions == FieldOr(message, "reactions", <<>>)
    IN  \A i \in 1..Len(reactions) : Len(reactions[i].value) > 0

\* C17: for every stored message id, emoji and userId, toggleReaction applied
\* twice leaves every message with the reactor sets it had before the first
\* call, and after the first and after the second call no emoji of the
\* message maps to an empty set of reactors.
C17_ToggleInvolution ==
    \A id \in StoreIds, emoji \in Emojis, userId \in Reactors :
        LET once == toggleReaction(messages, id, emoji, userId, now)
            twice == toggleReaction(once, id, emoji, userId, now)
            k == FindIndex(messages, id)
        IN  k # 0 =>
                /\ Len(twice) = Len(messages)
                /\ \A j \in 1..Len(messages) :
                      ReactorSets(twice[j]) = ReactorSets(messages[j])
                /\ ReactorSets(once[k]) # ReactorSets(messages[k])
                /\ NoEmptyReactors(once[k])
                /\ NoEmptyReactors(twice[k])

\* a second toggle has just removed the only reaction of a message: its
\* reactions are the empty object again, and another message keeps an emoji
\* with two reactors
C17_Witness ==
    /\ resp.op = "toggleReaction"
    /\ resp.found
    /\ Len(messages) = 2
    /\ messages[1].id # messages[2].id
    /\ \E k \in 1..2 :
          /\ messages[k].id = resp.id
          /\ "reactions" \in DOMAIN messages[k]
          /\ messages[k].reactions = <<>>
          /\ "reactions" \in DOMAIN messages[3 - k]
          /\ \E i \in 1..Len(messages[3 - k].reactions) :
                Len(messages[3 - k].reactions[i].value) = 2

----------------------------------------------------------------------------
(* Message store: properties *)

UniqueIds ==
    \A i, j \in 1..Len(messages) : messages[i].id = messages[j].id => i = j

\* a save whose id the store already holds leaves the store as it is
DuplicateRejected ==
    (resp'.op = "saveMessage" /\ HasMessage(messages, resp'.id)) => messages' = messages

\* C18: a save with an id that already exists leaves the store unchanged, and
\* in every reachable state no two stored messages share an id.
C18_SaveRejectsDuplicate == [](UniqueIds) /\ [][DuplicateRejected]_vars

\* the call of the step is an update or a delete of the message with the id
EditsMessage(r, id) ==
    /\ r.op \in {"updateMessage", "flagMessage", "resolveFlags", "toggleReaction",
                 "deleteMessage"}
    /\ r.id = id

\* right after save(m), get(m.id) returns m
SavedIsReturned ==
    resp'.op = "saveMessage" => getMessage(messages', resp'.id) = resp'.message

\* a call that is not an update or a delete of a stored id leaves get(id) as
\* it is
OthersLeaveMessage ==
    \A id \in StoreIds :
        (HasMessage(messages, id) /\ ~EditsMessage(resp', id)) =>
            /\ HasMessage(messages', id)
            /\ getMessage(messages', id) = getMessage(messages, id)

\* the frame part of C19 alone: what get(id) returns changes only with an
\* update or a delete of that id
C19_Frame == [][OthersLeaveMessage]_vars

\* C19: for every message m that was saved, get(m.id) returns m in every state
\* up to the next update or delete of that id, whatever other calls are made
\* on other messages, presence, statistics, settings or the moderation log.
C19_GetReturnsSaved == [][SavedIsReturned /\ OthersLeaveMessage]_vars

\* how often m occurs in the array
Count(arr, m) == Cardinality({i \in 1..Len(arr) : arr[i] = m})

\* result holds exactly the stored messages of the room, createdAt ascending
ListsRoom(result, roomId) ==
    /\ \A i \in 1..Len(result) :
          /\ result[i].roomId = roomId
          /\ Count(result, result[i]) = Count(messages, result[i])
    /\ \A i \in 1..Len(messages) :
          messages[i].roomId = roomId => Count(result, messages[i]) > 0
    /\ \A i, j \in 1..Len(result) : i < j => result[i].createdAt <= result[j].createdAt

\* a call of listMessages returns the listing and leaves the store as it is
ListLeavesStore ==
    resp'.op = "listMessages" =>
        /\ messages' = messages
        /\ resp'.result = listMessages(messages, resp'.roomId)

\* C20: after any sequence of save, update and delete calls, list(roomId)
\* returns exactly the stored messages of that room ordered by createdAt
\* ascending, and calling it does not change the store.
C20_ListMessages ==
    /\ [](\A roomId \in StoreRooms : ListsRoom(listMessages(messages, roomId), roomId))
    /\ [][ListLeavesStore]_vars

\* a listing has just been returned in another order than the store holds the
\* room's messages, one of them edited, with a message of another room stored
C20_Witness ==
    /\ resp.op = "listMessages"
    /\ Len(resp.result) = 2
    /\ resp.result # FilterRoom(messages, resp.roomId)
    /\ ListsRoom(resp.result, resp.roomId)
    /\ Len(messages) = 3
    /\ \E i \in 1..2 : "updatedAt" \in DOMAIN resp.result[i]

----------------------------------------------------------------------------
(* api/admin/moderation: PATCH. An invocation in flight is a record in reqs *)
(*   pc  "bcast": awaiting broadcastToRoom(message-updated); "done": returned *)

ModerationActions == {"resolve", "hide", "unhide"}

\* the store after the call the action selects
Moderate(msgs, id, action, t) ==
    IF action = "resolve" THEN resolveFlags(msgs, id, t)
    ELSE updateMessage(msgs, id, [hidden |-> action = "hide"], t)

\* a handler that takes a missing message for an updated one
ModerationStatus_IgnoreMissing(roomId, id, action, found) ==
    IF Falsy(roomId) \/ id = NoId \/ action = "" THEN 400
    ELSE IF action \notin ModerationActions THEN 400
    ELSE 200

\* the status the synchronous part of PATCH decides on: 400 for a missing
\* field or an unknown action, 404 if the call returned undefined
ModerationStatus(roomId, id, action, found) ==
    IF Falsy(roomId) \/ id = NoId \/ action = "" THEN 400
    ELSE IF action \notin ModerationActions THEN 400
    ELSE IF ~found THEN 404
    ELSE 200

MessageUpdatedEvent(message) == [type |-> "message-updated", message |-> message]

\* PATCH /api/admin/moderation with body {roomId, id, action, actor}, up to
\* its await of broadcastToRoom or, for a request it rejects, to its response
ModerationPatch(roomId, id, action, actor) ==
    LET found == HasMessage(messages, id)
        status == ModerationStatus(roomId, id, action, found)
        updated == Moderate(messages, id, action, now)
        r == [route |-> "moderation", roomId |-> roomId, id |-> id, action |-> action,
              actor |-> actor]
    IN  /\ messages' = IF status = 400 THEN messages ELSE updated
        /\ reqs' = Append(reqs,
              IF status # 200
              THEN Spread(r, [pc |-> "done", status |-> status, sent |-> <<>>])
              ELSE Spread(r, [pc |-> "bcast", status |-> 0,
                              sent |-> <<MessageUpdatedEvent(
                                  IF found THEN getMessage(updated, id)
                                  ELSE [id |-> NoId])>>]))
        /\ UNCHANGED <<now, nextUuid, roomStats, roomSettings, moderationLogs,
                       admVars, resp, wsVars, users, session, chat>>

\* the await returns, whether the fetch succeeded or not: the log entry is
\* appended and the response sent
ModerationBroadcast(i, fetchOk) ==
    LET r == reqs[i]
        returned == broadcastToRoom(fetchOk) = "returned"
    IN  /\ "route" \in DOMAIN r
        /\ r.route = "moderation"
        /\ r.pc = "bcast"
        /\ moderationLogs' =
              IF returned
              THEN addModerationLog(moderationLogs,
                       [roomId |-> r.roomId, action |-> <<"moderation.", r.action>>,
                        actor |-> r.actor, targetId |-> r.id],
                       Uuid(nextUuid), now)
              ELSE moderationLogs
        /\ nextUuid' = IF returned THEN nextUuid + 1 ELSE nextUuid
        /\ reqs' = [reqs EXCEPT ![i].pc = "done",
                                ![i].status = IF returned THEN 200 ELSE 500]
        /\ UNCHANGED <<now, messages, roomStats, roomSettings, admVars, resp, wsVars,
                       users, session, chat>>

----------------------------------------------------------------------------
(* api/messages: PATCH and DELETE. A field of a parsed JSON body is a value  *)
(* tagged with its typeof; a field the body omits is Undefined               *)


\* the truthiness !v negates
Truthy(v) ==
    CASE v.type = "undefined" -> FALSE
      [] v.type = "string" -> v.value # EmptyStr
      [] v.type = "boolean" -> v.value
      [] v.type = "number" -> v.value # 0

\* body.f
Field(body, f) == IF f \in DOMAIN body THEN body[f] ELSE Undefined

\* an if-chain that takes any content, also one that is not a string, for an
\* edit
MessagesUpdateKind_AnyContent(body) ==
    IF ~Truthy(Field(body, "roomId")) \/ ~Truthy(Field(body, "id")) THEN "missing"
    ELSE IF Field(body, "content").type # "undefined" THEN "content"
    ELSE "none"

\* the branch of PATCH's if-chain the body selects: "missing" for the 400 of
\* the required fields, "none" for the 400 of "No valid update provided"
MessagesUpdateKind(body) ==
    IF ~Truthy(Field(body, "roomId")) \/ ~Truthy(Field(body, "id")) THEN "missing"
    ELSE IF Field(body, "content").type = "string" THEN "content"
    ELSE IF Field(body, "pinned").type = "boolean" THEN "pinned"
    ELSE IF Field(body, "hidden").type = "boolean" THEN "hidden"
    ELSE IF Truthy(Field(body, "reaction")) /\ Truthy(Field(body, "userId")) THEN "reaction"
    ELSE IF Field(body, "flag").type = "string" THEN "flag"
    ELSE IF Truthy(Field(body, "resolve")) THEN "resolve"
    ELSE "none"

\* the store after the call the branch makes
MessagesUpdate(msgs, body, kind, t) ==
    LET id == Field(body, "id").value
    IN  CASE kind = "content" -> updateMessage(msgs, id, [content |-> body.content.value], t)
          [] kind = "pinned" -> updateMessage(msgs, id, [pinned |-> body.pinned.value], t)
          [] kind = "hidden" -> updateMessage(msgs, id, [hidden |-> body.hidden.value], t)
          [] kind = "reaction" ->
                toggleReaction(msgs, id, body.reaction.value, body.userId.value, t)
          [] kind = "flag" -> flagMessage(msgs, id, body.flag.value, t)
          [] kind = "resolve" -> resolveFlags(msgs, id, t)
          [] OTHER -> msgs

\* PATCH /api/messages, up to its await of broadcastToRoom or, for a request
\* it rejects, to its response
MessagesPatch(body) ==
    LET kind == MessagesUpdateKind(body)
        rejected == kind \in {"missing", "none"}
        id == IF Truthy(Field(body, "id")) THEN body.id.value ELSE NoId
        found == ~rejected /\ HasMessage(messages, id)
        updated == MessagesUpdate(messages, body, kind, now)
        r == [route |-> "messages", body |-> body, id |-> id]
    IN  /\ messages' = updated
        /\ reqs' = Append(reqs,
              IF rejected THEN Spread(r, [pc |-> "done", status |-> 400, sent |-> <<>>])
              ELSE IF ~found THEN Spread(r, [pc |-> "done", status |-> 404, sent |-> <<>>])
              ELSE Spread(r, [pc |-> "bcast", status |-> 0,
                              sent |-> <<MessageUpdatedEvent(getMessage(updated, id))>>]))
        /\ UNCHANGED <<now, nextUuid, roomStats, roomSettings, moderationLogs,
                       admVars, resp, wsVars, users, session, chat>>

MessageDeletedEvent(id) == [type |-> "message-deleted", id |-> id]

\* DELETE /api/messages with body {roomId, id}, up to its await or response
MessagesDelete(body) ==
    LET rejected == ~Truthy(Field(body, "roomId")) \/ ~Truthy(Field(body, "id"))
        id == IF Truthy(Field(body, "id")) THEN body.id.value ELSE NoId
        success == ~rejected /\ HasMessage(messages, id)
        r == [route |-> "messages", body |-> body, id |-> id]
    IN  /\ messages' = IF rejected THEN messages ELSE deleteMessage(messages, id)
        /\ reqs' = Append(reqs,
              IF rejected THEN Spread(r, [pc |-> "done", status |-> 400, sent |-> <<>>])
              ELSE IF ~success THEN Spread(r, [pc |-> "done", status |-> 404, sent |-> <<>>])
              ELSE Spread(r, [pc |-> "bcast", status |-> 0,
                              sent |-> <<MessageDeletedEvent(id)>>]))
        /\ UNCHANGED <<now, nextUuid, roomStats, roomSettings, moderationLogs,
                       admVars, resp, wsVars, users, session, chat>>

\* the await of broadcastToRoom returns and the handler answers
MessagesBroadcast(i, fetchOk) ==
    /\ "route" \in DOMAIN reqs[i]
    /\ reqs[i].route = "messages"
    /\ reqs[i].pc = "bcast"
    /\ reqs' = [reqs EXCEPT ![i].pc = "done",
                            ![i].status = IF broadcastToRoom(fetchOk) = "returned"
                                          THEN 200 ELSE 500]
    /\ UNCHANGED <<now, nextUuid, storeVars, admVars, resp, wsVars, users, session, chat>>

----------------------------------------------------------------------------
(* The moderation specification: moderators act on messages that clients    *)
(* flag and delete in between                                               *)



ModRoom == <<"r", "1">>
ModActor == <<"a", "d", "m">>

ModSave ==
    /\ Len(messages) < MaxModStored
    /\ \E id \in StoreIds :
          /\ ~HasMessage(messages, id)
          /\ SaveMessage(StoreMessage(id, ModRoom, now))

ModFlag == FlagMessage(EditFlagged, EditFlag)

ModDelete == \E id \in StoreIds : DeleteMessage(id)

\* request bodies <<roomId, id, action>>: every action on one message, one on
\* another, and one body per way of being rejected with 400
ModBodies ==
    {<<ModRoom, EditFlagged, action>> : action \in ModerationActions}
        \cup {<<ModRoom, <<"c", 2>>, "hide">>, <<EmptyStr, EditFlagged, "hide">>,
              <<ModRoom, NoId, "hide">>, <<ModRoom, EditFlagged, "">>,
              <<ModRoom, EditFlagged, "ban">>}

ModPatch ==
    \E body \in ModBodies :
        /\ Len(reqs) < MaxModReqs
        /\ ModerationPatch(body[1], body[2], body[3], ModActor)

ModBroadcast ==
    \E i \in 1..Len(reqs), fetchOk \in BOOLEAN : ModerationBroadcast(i, fetchOk)

NextMod == ModSave \/ ModFlag \/ ModDelete \/ ModPatch \/ ModBroadcast

SpecMod == Init /\ [][NextMod]_vars

----------------------------------------------------------------------------
(* Moderation: properties *)

\* what the first step of a moderation request may do: a request that is
\* rejected, and any request for a message the store does not hold, changes
\* nothing and broadcasts nothing
ModerationStep ==
    /\ Len(reqs') > Len(reqs) =>
          LET r == reqs'[Len(reqs')]
          IN  /\ moderationLogs' = moderationLogs
              /\ r.status \in {0, 400, 404}
              /\ (r.status # 0 \/ ~HasMessage(messages, r.id)) =>
                    /\ r.status # 0
                    /\ messages' = messages
                    /\ r.sent = <<>>
              /\ (r.roomId # EmptyStr /\ r.action \in ModerationActions
                     /\ ~HasMessage(messages, r.id) /\ r.id # NoId) => r.status = 404
    /\ moderationLogs' # moderationLogs =>
          /\ Len(moderationLogs') = Len(moderationLogs) + 1
          /\ \E i \in 1..Len(reqs) :
                /\ reqs[i].pc = "bcast"
                /\ reqs'[i].pc = "done"
                /\ moderationLogs'[1].targetId = reqs[i].id
                /\ moderationLogs'[1].action = <<"moderation.", reqs[i].action>>

\* every action that found its message has triggered one 'message-updated'
\* broadcast carrying the message, and the log holds one entry per such action
\* that has returned
ModerationInv ==
    /\ \A i \in 1..Len(reqs) :
          reqs[i].status \in {0, 200} =>
              /\ Len(reqs[i].sent) = 1
              /\ reqs[i].sent[1].type = "message-updated"
              /\ reqs[i].sent[1].message.id = reqs[i].id
    /\ Len(moderationLogs) = Cardinality({i \in 1..Len(reqs) : reqs[i].status = 200})

\* C21: a moderation action on an existing message appends exactly one log
\* entry and triggers one 'message-updated' broadcast; on a message that does
\* not exist it answers 404, changes no message, appends no entry and
\* broadcasts nothing.
C21_ModerationAction == [](ModerationInv) /\ [][ModerationStep]_vars

\* one action has been logged after its broadcast, and a later action on the
\* message, deleted in between, has been answered 404
C21_Witness ==
    /\ Len(reqs) = 2
    /\ reqs[1].status = 200
    /\ reqs[2].status = 404
    /\ reqs[2].id = reqs[1].id
    /\ ~HasMessage(messages, reqs[2].id)
    /\ Len(moderationLogs) = 1

----------------------------------------------------------------------------
(* The validation specification: well-formed and rejected requests to       *)
(* POST /api/stream, PATCH and DELETE /api/messages, PATCH                  *)
(* /api/admin/moderation and POST /broadcast, interleaved                   *)

ValRoom == JsString(ModRoom)
ValId == JsString(EditFlagged)

\* <<roomId, isArray>> of the stream bodies that are rejected: roomId missing
\* or empty, messages missing or not an array
ValBadStreamBodies == {<<EmptyStr, TRUE>>, <<UndefStr, TRUE>>, <<ModRoom, FALSE>>}

ValPatchBodies ==
    {[roomId |-> ValRoom, id |-> ValId, content |-> JsString(<<"e", "d">>)],
     [roomId |-> ValRoom, id |-> ValId, reaction |-> JsString(<<"+", "1">>),
      userId |-> JsString(<<"u", "1">>)]}

\* roomId or id missing or empty, or no valid update: none given, a content
\* that is not a string, a reaction without its userId, resolve: false
ValBadPatchBodies ==
    {[id |-> ValId, content |-> JsString(<<"e", "d">>)],
     [roomId |-> JsString(EmptyStr), id |-> ValId, content |-> JsString(<<"e", "d">>)],
     [roomId |-> ValRoom, content |-> JsString(<<"e", "d">>)],
     [roomId |-> ValRoom, id |-> ValId],
     [roomId |-> ValRoom, id |-> ValId, content |-> JsNumber(5)],
     [roomId |-> ValRoom, id |-> ValId, reaction |-> JsString(<<"+", "1">>)],
     [roomId |-> ValRoom, id |-> ValId, resolve |-> JsBoolean(FALSE)]}

ValDeleteBody == [roomId |-> ValRoom, id |-> ValId]
ValBadDeleteBodies == {[id |-> ValId], [roomId |-> ValRoom]}

\* <<roomId, id, action>>: a required field missing, or an unknown action
ValBadModBodies ==
    {<<EmptyStr, EditFlagged, "hide">>, <<ModRoom, NoId, "hide">>,
     <<ModRoom, EditFlagged, "">>, <<ModRoom, EditFlagged, "ban">>}

\* <<roomId, message, validJson>>: a body that does not parse, or lacks a field
ValBadIngestBodies ==
    {<<ModRoom, WsDone, FALSE>>, <<EmptyStr, WsDone, TRUE>>,
     <<ModRoom, NoMessage, TRUE>>}

ValStream ==
    POST(MaxValReqs, ModRoom, TRUE, "user", <<"h", "i">>, UndefStr, EditFlagged,
         UndefAttachments)

ValStreamInvalid ==
    \E b \in ValBadStreamBodies :
        POST(MaxValReqs, b[1], b[2], "user", <<"h", "i">>, UndefStr, EditFlagged,
             UndefAttachments)

ValPatch ==
    /\ Len(reqs) < MaxValReqs
    /\ \E body \in ValPatchBodies \cup ValBadPatchBodies : MessagesPatch(body)

ValDelete ==
    /\ Len(reqs) < MaxValReqs
    /\ \E body \in {ValDeleteBody} \cup ValBadDeleteBodies : MessagesDelete(body)

ValModerate ==
    /\ Len(reqs) < MaxValReqs
    /\ \E b \in {<<ModRoom, EditFlagged, "hide">>} \cup ValBadModBodies :
          ModerationPatch(b[1], b[2], b[3], ModActor)

ValReturn ==
    \E i \in 1..Len(reqs), fetchOk \in BOOLEAN :
        MessagesBroadcast(i, fetchOk) \/ ModerationBroadcast(i, fetchOk)

ValIngest ==
    /\ Len(ingested) < MaxBroadcasts
    /\ Ingest(ModRoom, WsDone, TRUE, {})
    /\ UNCHANGED nonWs

ValIngestInvalid ==
    /\ \E b \in ValBadIngestBodies : Ingest(b[1], b[2], b[3], {})
    /\ UNCHANGED nonWs

NextVal ==
    ValStream \/ ValStreamInvalid \/ ValPatch \/ ValDelete \/ ValModerate
        \/ ValReturn \/ ValIngest \/ ValIngestInvalid

SpecVal == Init /\ [][NextVal]_vars

----------------------------------------------------------------------------
(* Validation: properties *)

\* the step has changed neither the store, nor the admission counters, nor
\* the moderation log, and has broadcast nothing: no invocation has been
\* started except one that ended with 400 and sent nothing, and the
\* WebSocket server has ingested and delivered nothing
RejectedBeforeMutation ==
    /\ UNCHANGED <<storeVars, admVars, rooms, inbox, ingested>>
    /\ \/ reqs' = reqs
       \/ /\ Len(reqs') = Len(reqs) + 1
          /\ SubSeq(reqs', 1, Len(reqs)) = reqs
          /\ reqs'[Len(reqs')].status = 400
          /\ reqs'[Len(reqs')].sent = <<>>

ValidationStep ==
    /\ \A b \in ValBadStreamBodies :
          POST(MaxValReqs, b[1], b[2], "user", <<"h", "i">>, UndefStr, EditFlagged,
               UndefAttachments) => RejectedBeforeMutation
    /\ \A body \in ValBadPatchBodies : MessagesPatch(body) => RejectedBeforeMutation
    /\ \A body \in ValBadDeleteBodies : MessagesDelete(body) => RejectedBeforeMutation
    /\ \A b \in ValBadModBodies :
          ModerationPatch(b[1], b[2], b[3], ModActor) => RejectedBeforeMutation
    /\ \A b \in ValBadIngestBodies :
          (Ingest(b[1], b[2], b[3], {}) /\ UNCHANGED nonWs) =>
              (RejectedBeforeMutation /\ lastBroadcast'.status = 400)

----------------------------------------------------------------------------
(* components/Chat: sendMessages, the room-event callback, handleStop *)

nonChat == <<now, storeVars, admVars, reqs, resp, wsVars, users, session>>

\* the text of the token events of the k-th response: one letter per response
\* of the client's own calls, one for the responses to other members
ChatDelta(k) == IF k = 1 THEN <<"a">> ELSE IF k = 2 THEN <<"b">> ELSE <<"o">>

RECURSIVE ChatText(_, _)
ChatText(k, n) == IF n = 0 THEN <<>> ELSE ChatText(k, n - 1) \o ChatDelta(k)

\* the room events of the k-th response in the order the server broadcasts
\* them: the tokens, the assistant message, done
ChatEventOf(k, n) ==
    IF n <= MaxChatTokens THEN [type |-> "token", delta |-> ChatDelta(k)]
    ELSE IF n = MaxChatTokens + 1
         THEN [type |-> "assistant-message", id |-> <<"c", k>>,
               content |-> ChatText(k, MaxChatTokens)]
         ELSE [type |-> "done"]

AssistantEntry(id, content) ==
    [id |-> id, role |-> "assistant", content |-> content, status |-> "sent"]

\* prev.map(message => message.id === id ? {...message, status} : message)
MarkStatus(msgs, id, status) ==
    [n \in 1..Len(msgs) |->
        IF msgs[n].id = id THEN [msgs[n] EXCEPT !.status = status] ELSE msgs[n]]

\* the last user message that is still pending, 0 if there is none
LastPending(msgs) ==
    LET S == {n \in 1..Len(msgs) : msgs[n].role = "user" /\ msgs[n].status = "pending"}
    IN  IF S = {} THEN 0 ELSE CHOOSE n \in S : \A m \in S : m <= n

\* a duplicate check that finds nothing
HasId_Never(msgs, id) == FALSE

\* prev.some((m) => m.id === event.id)
HasId(msgs, id) == \E n \in 1..Len(msgs) : msgs[n].id = id

\* clientIdRef.current, and the id of another member of the room
ChatClientId == <<"m", "e">>
ChatOtherId == <<"y", "o", "u">>

\* abortRef.current?.abort(): a fetch that is still being read rejects
AbortFetch(http, k) ==
    IF k # 0 /\ http[k].st = "reading" THEN [http EXCEPT ![k].st = "aborted"] ELSE http

\* case "token": if (stopRequestedRef.current) return
TokenIgnored(stopRequested) == stopRequested

\* the callback passed to connect(): the cases token, assistant-message, done
\* and user-message
OnRoomEvent(c, event, uuid) ==
    CASE event.type = "user-message" ->
            IF event.senderId # ChatClientId
            THEN [c EXCEPT !.messages =
                               IF HasId(c.messages, event.id) THEN @
                               ELSE Append(@, [id |-> event.id, role |-> "user",
                                               content |-> event.content,
                                               status |-> "sent"]),
                           !.isLoading = TRUE,
                           !.streamingAccumulator = <<>>,
                           !.wsDone = FALSE]
            ELSE c
      [] event.type = "token" ->
            IF TokenIgnored(c.stopRequested) THEN c
            ELSE [c EXCEPT !.streamingAccumulator = @ \o event.delta,
                           !.streaming = c.streamingAccumulator \o event.delta]
      [] event.type = "assistant-message" ->
            IF c.stopRequested THEN c
            ELSE [c EXCEPT !.messages = Append(@, AssistantEntry(event.id, event.content)),
                           !.streamingAccumulator = <<>>,
                           !.streaming = <<>>,
                           !.wsDone = TRUE,
                           !.isLoading = FALSE]
      [] event.type = "done" ->
            IF c.stopRequested THEN c
            ELSE IF c.streamingAccumulator # <<>>
                 THEN [c EXCEPT !.messages =
                                    Append(@, AssistantEntry(uuid, c.streamingAccumulator)),
                                !.streamingAccumulator = <<>>,
                                !.streaming = <<>>,
                                !.wsDone = TRUE,
                                !.isLoading = FALSE]
                 ELSE [c EXCEPT !.wsDone = TRUE, !.isLoading = FALSE]

\* handleSubmit with a message to send: the user message is appended as
\* pending and sendMessages runs up to its fetch
ChatSubmit ==
    /\ ~chat.isLoading
    /\ Len(chat.http) < MaxChatSends
    /\ \A k \in 1..Len(chat.http) : chat.http[k].st # "aborted"
    /\ chat' =
          [chat EXCEPT
              !.messages = Append(@, [id |-> Uuid(nextUuid), role |-> "user",
                                      content |-> <<"q">>, status |-> "pending"]),
              !.isLoading = TRUE,
              !.streamingAccumulator = <<>>,
              !.streaming = <<>>,
              !.wsDone = FALSE,
              !.stopRequested = FALSE,
              !.http = Append(AbortFetch(@, chat.abort),
                              [local |-> <<>>, st |-> "reading", user |-> Uuid(nextUuid)]),
              !.ws = Append(@, 0),
              !.abort = Len(chat.http) + 1,
              !.awaited = Len(chat.http) + 1]
    /\ nextUuid' = nextUuid + 1
    /\ UNCHANGED nonChat

\* the next room event of the k-th response arrives on the socket
ChatEvent(k) ==
    /\ k \in 1..Len(chat.ws)
    /\ chat.ws[k] < MaxChatTokens + 2
    /\ LET event == ChatEventOf(k, chat.ws[k] + 1)
           fresh == event.type = "done" /\ ~chat.stopRequested
                        /\ chat.streamingAccumulator # <<>>
       IN  /\ chat' = [OnRoomEvent(chat, event, Uuid(nextUuid)) EXCEPT !.ws[k] = @ + 1]
           /\ nextUuid' = IF fresh THEN nextUuid + 1 ELSE nextUuid
    /\ UNCHANGED nonChat

\* what follows the read loop of sendMessages: the user message is marked
\* sent, and the text read over HTTP becomes the assistant message if the
\* socket has not delivered one
AfterRead(c, k, uuid) ==
    LET marked == [c EXCEPT !.messages = MarkStatus(@, c.http[k].user, "sent"),
                            !.http[k].st = "ended"]
    IN  IF c.http[k].local # <<>> /\ ~c.wsDone /\ ~c.stopRequested
        THEN [marked EXCEPT !.messages = Append(@, AssistantEntry(uuid, c.http[k].local)),
                            !.streaming = <<>>,
                            !.isLoading = FALSE]
        ELSE marked

\* reader.read() of the k-th call resolves: with a chunk, or with done
ChatRead(k, done) ==
    /\ k \in 1..Len(chat.http)
    /\ chat.http[k].st = "reading"
    /\ done \/ Len(chat.http[k].local) < MaxChatTokens
    /\ LET fallback == chat.http[k].local # <<>> /\ ~chat.wsDone /\ ~chat.stopRequested
       IN  IF done \/ chat.stopRequested
           THEN /\ chat' = AfterRead(chat, k, Uuid(nextUuid))
                /\ nextUuid' = IF fallback THEN nextUuid + 1 ELSE nextUuid
           ELSE /\ chat' =
                      LET localStreaming == chat.http[k].local \o ChatDelta(k)
                      IN  [chat EXCEPT
                              !.http[k].local = localStreaming,
                              !.streaming = IF chat.streamingAccumulator = <<>>
                                            THEN localStreaming ELSE @]
                /\ nextUuid' = nextUuid
    /\ UNCHANGED nonChat

\* the aborted fetch of the k-th call rejects: the catch block of sendMessages
ChatRejected(k) ==
    /\ k \in 1..Len(chat.http)
    /\ chat.http[k].st = "aborted"
    /\ chat' =
          LET ended == [chat EXCEPT !.http[k].st = "ended"]
              pending == LastPending(chat.messages)
          IN  IF chat.stopRequested THEN ended
              ELSE [ended EXCEPT
                       !.messages = IF pending = 0 THEN @
                                    ELSE MarkStatus(@, chat.messages[pending].id, "error"),
                       !.isLoading = FALSE]
    /\ UNCHANGED <<nextUuid, nonChat>>

\* handleStop
ChatStop ==
    /\ chat.isLoading
    /\ LET partial == IF chat.streamingAccumulator # <<>>
                      THEN chat.streamingAccumulator ELSE chat.streaming
       IN  /\ chat' =
                 [chat EXCEPT
                     !.stopRequested = TRUE,
                     !.http = AbortFetch(@, chat.abort),
                     !.abort = 0,
                     !.messages = IF partial # <<>>
                                  THEN Append(@, AssistantEntry(Uuid(nextUuid), partial))
                                  ELSE @,
                     !.streamingAccumulator = <<>>,
                     !.streaming = <<>>,
                     !.isLoading = FALSE,
                     !.stopped = @ \cup {Len(chat.http)}]
           /\ nextUuid' = IF partial # <<>> THEN nextUuid + 1 ELSE nextUuid
    /\ UNCHANGED nonChat

\* a user-message event arrives on the socket: from this client or another
\* member, with an id the list already holds or a new one
ChatUserMessage(senderId, id) ==
    /\ Len(chat.others) < MaxChatOthers
    /\ chat' =
          LET event == [type |-> "user-message", id |-> id, senderId |-> senderId,
                        content |-> <<"q">>]
              c == OnRoomEvent(chat, event, NoId)
          IN  IF senderId # ChatClientId
              THEN [c EXCEPT !.others = Append(@, 0),
                             !.awaited = MaxChatSends + Len(chat.others) + 1]
              ELSE [c EXCEPT !.others = Append(@, MaxChatTokens + 2)]
    /\ UNCHANGED <<nextUuid, nonChat>>

\* the next room event of the response to the j-th user-message event arrives
ChatOtherEvent(j) ==
    /\ j \in 1..Len(chat.others)
    /\ chat.others[j] < MaxChatTokens + 2
    /\ LET event == ChatEventOf(MaxChatSends + j, chat.others[j] + 1)
           fresh == event.type = "done" /\ ~chat.stopRequested
                        /\ chat.streamingAccumulator # <<>>
       IN  /\ chat' = [OnRoomEvent(chat, event, Uuid(nextUuid)) EXCEPT !.others[j] = @ + 1]
           /\ nextUuid' = IF fresh THEN nextUuid + 1 ELSE nextUuid
    /\ UNCHANGED nonChat

ChatEvents == \E k \in 1..MaxChatSends : ChatEvent(k)
ChatReads == \E k \in 1..MaxChatSends, done \in BOOLEAN : ChatRead(k, done)
ChatRejections == \E k \in 1..MaxChatSends : ChatRejected(k)

NextChat == ChatSubmit \/ ChatEvents \/ ChatReads \/ ChatRejections \/ ChatStop

SpecChat == Init /\ [][NextChat]_vars

----------------------------------------------------------------------------
(* Chat: properties *)

\* an event of a response the user has stopped changes neither the message
\* list nor the streaming text
StoppedStaysSilent ==
    \A k \in chat.stopped :
        ChatEvent(k) => /\ chat'.messages = chat.messages
                        /\ chat'.streaming = chat.streaming

\* Stop adds the partial text, if there is any, as one assistant message at
\* once, and clears the streaming text
StopFinalizes ==
    ChatStop =>
        LET partial == IF chat.streamingAccumulator # <<>>
                       THEN chat.streamingAccumulator ELSE chat.streaming
        IN  /\ chat'.streaming = <<>>
            /\ IF partial = <<>> THEN chat'.messages = chat.messages
               ELSE /\ Len(chat'.messages) = Len(chat.messages) + 1
                    /\ SubSeq(chat'.messages, 1, Len(chat.messages)) = chat.messages
                    /\ chat'.messages[Len(chat'.messages)].role = "assistant"
                    /\ chat'.messages[Len(chat'.messages)].content = partial

\* no step of the component touches the server's store
ChatLeavesStore == UNCHANGED <<storeVars, admVars>>

\* C23: after Stop no later token, assistant-message or done event of the
\* stopped response changes the client's message list or streaming text; the
\* partial text is added once as an assistant message without waiting for
\* done; the server's room state is untouched by the abort.
C23_StopSilencesResponse ==
    [][StoppedStaysSilent /\ StopFinalizes /\ ChatLeavesStore]_vars

\* Stop finalizes the partial text and no step touches the server's store
C23_StopFinalizes == [][StopFinalizes /\ ChatLeavesStore]_vars

\* as long as no new message has been sent after Stop, the events are ignored
C23_SilentUntilNextSend ==
    [][\A k \in 1..MaxChatSends :
          (chat.stopRequested /\ ChatEvent(k)) =>
              (chat'.messages = chat.messages /\ chat'.streaming = chat.streaming)]_vars

\* a token of the stopped first response is shown in the streaming text of
\* the second
C23_LateToken ==
    /\ 1 \in chat.stopped
    /\ Len(chat.http) = 2
    /\ chat.streaming = <<"a">>
    /\ chat.ws = <<2, 0>>

\* the assistant messages in the list whose text is text of the k-th response
AssistantMessagesOf(k) ==
    {n \in 1..Len(chat.messages) :
        /\ chat.messages[n].role = "assistant"
        /\ chat.messages[n].content # <<>>
        /\ \A i \in 1..Len(chat.messages[n].content) :
               <<chat.messages[n].content[i]>> = ChatDelta(k)}

\* the k-th response has completed: its HTTP stream has ended with text, all
\* its room events have been delivered, and it was never stopped
ResponseCompleted(k) ==
    /\ k \in 1..Len(chat.http)
    /\ chat.http[k].st = "ended"
    /\ chat.http[k].local # <<>>
    /\ chat.ws[k] = MaxChatTokens + 2
    /\ k \notin chat.stopped

\* C32: for each successfully completed response the message list holds
\* exactly one assistant message, whatever the order in which the end of the
\* HTTP stream and the token, assistant-message and done events arrived.
C32_OneAssistantMessage ==
    \A k \in 1..MaxChatSends :
        ResponseCompleted(k) => Cardinality(AssistantMessagesOf(k)) = 1

\* the HTTP stream of the only response ended before its assistant-message
\* event arrived: the fallback message and the pushed message are both listed
C32_Duplicate ==
    /\ Len(chat.http) = 1
    /\ ResponseCompleted(1)
    /\ Cardinality(AssistantMessagesOf(1)) = 2

\* the assistant-message event of the only response arrived before its HTTP
\* stream ended: one assistant message
C32_PushedFirst ==
    /\ Len(chat.http) = 1
    /\ ResponseCompleted(1)
    /\ Cardinality(AssistantMessagesOf(1)) = 1

----------------------------------------------------------------------------
(* The statistics specification: partial updates of the statistics of two   *)
(* rooms                                                                    *)

StatsUpdates ==
    {[userMessages |-> 2, assistantMessages |-> 1],
     [lastResponseMs |-> TickMs, totalResponses |-> 1],
     [tokenUsage |-> [prompt |-> 3]],
     [tokenUsage |-> [completion |-> 4, total |-> 7]],
     [tokenUsage |-> [prompt |-> UndefNum, total |-> 5]],
     [assistantMessages |-> 2, tokenUsage |-> [x \in {} |-> 0]]}

StatsUpdate == \E roomId \in StoreRooms, updates \in StatsUpdates : UpdateRoomStats(roomId, updates)

NextStats == StatsUpdate

SpecStats == Init /\ [][NextStats]_vars

StatsFields ==
    {"roomId", "userMessages", "assistantMessages", "avgResponseMs", "lastResponseMs",
     "totalResponses"}
TokenFields == {"prompt", "completion", "total"}

\* the token count f is given by the update
TokenGiven(updates, f) ==
    /\ "tokenUsage" \in DOMAIN updates
    /\ f \in DOMAIN updates.tokenUsage
    /\ updates.tokenUsage[f] # UndefNum

StatsFrame(roomId, updates) ==
    LET current == getRoomStats(roomStats, roomId)
        next == roomStats'[roomId]
    IN  /\ DOMAIN roomStats' = DOMAIN roomStats \cup {roomId}
        /\ \A other \in DOMAIN roomStats \ {roomId} : roomStats'[other] = roomStats[other]
        /\ \A f \in StatsFields :
              next[f] = IF f \in DOMAIN updates THEN updates[f] ELSE current[f]
        /\ \A f \in TokenFields :
              next.tokenUsage[f] = IF TokenGiven(updates, f) THEN updates.tokenUsage[f]
                                   ELSE current.tokenUsage[f]
        /\ DOMAIN next.tokenUsage = TokenFields

\* C24: updateRoomStats(roomId, partial) changes only the fields given in the
\* partial: each of tokenUsage.prompt, completion and total that is not given
\* keeps its previous value, and an update without tokenUsage leaves all
\* three as they were.
C24_UpdateRoomStatsFrame ==
    [][\A roomId \in StoreRooms, updates \in StatsUpdates :
          UpdateRoomStats(roomId, updates) => StatsFrame(roomId, updates)]_vars

\* a room whose prompt count was set alone, then its completion and total
\* counts, then its message counts without tokenUsage
C24_Witness ==
    /\ <<"r", "1">> \in DOMAIN roomStats
    /\ roomStats[<<"r", "1">>].tokenUsage = [prompt |-> 3, completion |-> 4, total |-> 7]
    /\ roomStats[<<"r", "1">>].userMessages = 2
    /\ roomStats[<<"r", "1">>].lastResponseMs = 0

----------------------------------------------------------------------------
(* lib/db: presence records; api/presence: GET and POST *)

DefaultPresenceTimeoutMs == 30000

\* a test that also drops a record seen exactly timeoutMs ago
IsInactive_Inclusive(t, user, timeoutMs) == t - user.lastSeen >= timeoutMs

\* now - user.lastSeen > timeoutMs
IsInactive(t, user, timeoutMs) == t - user.lastSeen > timeoutMs

\* cleanupInactiveUsers(timeoutMs), at time t
cleanupInactiveUsers(us, t, timeoutMs) ==
    [userId \in {k \in DOMAIN us : ~IsInactive(t, us[k], timeoutMs)} |-> us[userId]]

\* getUsersInRoom(roomId): the records of the room (as a set: the order of the
\* returned array is the insertion order of the Map, which the model of the
\* Map does not keep)
getUsersInRoom(us, roomId) == {us[k] : k \in {x \in DOMAIN us : us[x].roomId = roomId}}

\* cleanupInactiveUsers called with an explicit timeout
CleanupInactiveUsers(timeoutMs) ==
    /\ users' = cleanupInactiveUsers(users, now, timeoutMs)
    /\ resp' = [op |-> "cleanupInactiveUsers", timeoutMs |-> timeoutMs]
    /\ UNCHANGED <<now, nextUuid, storeVars, admVars, reqs, wsVars, session, chat>>

\* GET /api/presence?roomId=
PresenceGet(roomId) ==
    /\ IF Falsy(roomId)
       THEN /\ resp' = [status |-> 400, body |-> "roomId is required"]
            /\ users' = users
       ELSE LET kept == cleanupInactiveUsers(users, now, DefaultPresenceTimeoutMs)
            IN  /\ users' = kept
                /\ resp' = [status |-> 200, op |-> "presence", roomId |-> roomId,
                            users |-> getUsersInRoom(kept, roomId), at |-> now]
    /\ UNCHANGED <<now, nextUuid, storeVars, admVars, reqs, wsVars, session, chat>>

PresenceEvent(us) == [type |-> "presence", users |-> us]

\* POST /api/presence up to await broadcastToRoom
PresencePost(roomId, userId, name) ==
    /\ IF Falsy(roomId) \/ Falsy(userId)
       THEN /\ users' = users
            /\ reqs' = Append(reqs, [route |-> "presence", roomId |-> roomId, pc |-> "done",
                                     status |-> 400, sent |-> <<>>, users |-> {},
                                     at |-> now])
       ELSE LET kept == cleanupInactiveUsers(
                            updateUser(users, [id |-> userId, roomId |-> roomId,
                                               name |-> name], now),
                            now, DefaultPresenceTimeoutMs)
                inRoom == getUsersInRoom(kept, roomId)
            IN  /\ users' = kept
                /\ reqs' = Append(reqs, [route |-> "presence", roomId |-> roomId,
                                         pc |-> "bcast", status |-> 0,
                                         sent |-> <<PresenceEvent(inRoom)>>,
                                         users |-> inRoom, at |-> now])
    /\ UNCHANGED <<now, nextUuid, storeVars, admVars, resp, wsVars, session, chat>>

\* broadcastToRoom has returned (it catches a failed fetch): the response
PresenceBroadcast(i) ==
    /\ i \in 1..Len(reqs)
    /\ "route" \in DOMAIN reqs[i]
    /\ reqs[i].route = "presence"
    /\ reqs[i].pc = "bcast"
    /\ reqs' = [reqs EXCEPT ![i].pc = "done", ![i].status = 200]
    /\ UNCHANGED <<now, nextUuid, storeVars, admVars, resp, wsVars, users, session, chat>>

----------------------------------------------------------------------------
(* The presence specification: two clients of one room and one of another   *)
(* report presence, and the room is read, as time passes                    *)

PresenceRooms == {<<"r", "1">>, <<"r", "2">>}
PresenceUserIds == {<<"u", "1">>, <<"u", "2">>}
PresenceTimeouts == {TickMs, DefaultPresenceTimeoutMs}

PresenceRead == \E roomId \in {<<"r", "1">>, EmptyStr} : PresenceGet(roomId)

PresenceReport ==
    /\ Len(reqs) < MaxPresencePosts
    /\ \E b \in {<<(<<"r", "1">>), (<<"u", "1">>), UndefStr>>,
                 <<(<<"r", "1">>), (<<"u", "2">>), (<<"B">>)>>,
                 <<(<<"r", "2">>), (<<"u", "2">>), (<<"B">>)>>,
                 <<(<<"r", "1">>), EmptyStr, UndefStr>>} :
          PresencePost(b[1], b[2], b[3])

PresenceReturn == \E i \in 1..Len(reqs) : PresenceBroadcast(i)

PresencePurge == \E timeoutMs \in PresenceTimeouts : CleanupInactiveUsers(timeoutMs)

NextPresence == PresenceRead \/ PresenceReport \/ PresenceReturn \/ PresencePurge \/ Tick

SpecPresence == Init /\ [][NextPresence]_vars

\* every record a GET or a POST has returned was seen at most 30000 ms before
\* the read
PresenceFresh ==
    /\ ("op" \in DOMAIN resp /\ resp.op = "presence") =>
          \A u \in resp.users : resp.at - u.lastSeen <= DefaultPresenceTimeoutMs
    /\ \A i \in 1..Len(reqs) :
          \A u \in reqs[i].users : reqs[i].at - u.lastSeen <= DefaultPresenceTimeoutMs

\* a purge removes the records with now - lastSeen > timeoutMs and no other
PurgesExactly ==
    \A timeoutMs \in PresenceTimeouts :
        CleanupInactiveUsers(timeoutMs) =>
            /\ DOMAIN users' = {k \in DOMAIN users : ~(now - users[k].lastSeen > timeoutMs)}
            /\ \A k \in DOMAIN users' : users'[k] = users[k]

\* C25: a presence read never returns a record whose lastSeen is more than
\* the timeout (30000 ms) older than the time of the read, and
\* cleanupInactiveUsers(timeoutMs) removes exactly the records with
\* now - lastSeen > timeoutMs.
C25_PresenceFresh == [](PresenceFresh) /\ [][PurgesExactly]_vars

\* a read has returned one record seen exactly 30000 ms before, after the
\* record of the other client of the room, seen 40000 ms before, was purged
C25_Witness ==
    /\ "op" \in DOMAIN resp
    /\ resp.op = "presence"
    /\ resp.at = now
    /\ \E u \in resp.users : resp.at - u.lastSeen = DefaultPresenceTimeoutMs
    /\ Cardinality(resp.users) = 1
    /\ DOMAIN users = {<<"u", "2">>}
    /\ Len(reqs) = 2
    /\ reqs[1].users # {}
    /\ \A u \in reqs[1].users : u.id = <<"u", "1">> /\ now - u.lastSeen = 4 * TickMs

----------------------------------------------------------------------------
(* streamRoomReply: what it persists *)

\* the stored user messages of a room
UserMessages(roomId) ==
    {k \in 1..Len(messages) : messages[k].roomId = roomId /\ messages[k].role = "user"}

PersistsInv(i) ==
    LET r == reqs[i]
    IN  /\ r.lastRole = "user" =>
              /\ Cardinality(StoredWith(r.messageId)) = 1
              /\ \A k \in StoredWith(r.messageId) :
                    /\ messages[k].role = "user"
                    /\ messages[k].roomId = r.roomId
                    /\ messages[k].content = StreamContent
        /\ r.lastRole # "user" => ~r.persisted
        /\ r.gen = "ok" =>
              /\ r.pc = "streaming"
              /\ Cardinality(StoredWith(r.assistantId)) = 1
              /\ \A k \in StoredWith(r.assistantId) :
                    /\ messages[k].role = "assistant"
                    /\ messages[k].roomId = r.roomId
                    /\ messages[k].content = Text(r.produced)
        /\ r.gen # "ok" => r.assistantId = NoId

\* C26: streamRoomReply persists the last entry of the message list as a user
\* message when its role is user; once the generation has succeeded it has
\* persisted exactly one assistant message, whose content is the complete
\* generated text, and it has returned the response that carries the
\* fragments.
C26_PersistsUserAndAssistant ==
    /\ \A i \in 1..Len(reqs) : PersistsInv(i)
    /\ Cardinality(UserMessages(StreamRoom)) = Cardinality(SubmittedIds)
    /\ Cardinality(AssistantMessages(StreamRoom)) = Cardinality(Completed)
    /\ Len(messages) = Cardinality(SubmittedIds) + Cardinality(Completed)

\* a history ending in a user entry and one ending in an assistant entry have
\* been submitted; both generations have completed with two fragments; the
\* store holds the one user message and the two assistant messages
C26_Witness ==
    /\ Len(reqs) = 2
    /\ reqs[1].lastRole = "user"
    /\ reqs[2].lastRole = "assistant"
    /\ reqs[1].gen = "ok"
    /\ reqs[2].gen = "ok"
    /\ Len(reqs[1].produced) = 2
    /\ Len(reqs[2].produced) = 2
    /\ Len(messages) = 3
    /\ messages[1].content = StreamContent
    /\ messages[2].content = <<"x", "y">>

----------------------------------------------------------------------------
(* Ingestion endpoint: what the members are sent *)

\* the frame a member is handed holds the message as it was ingested: the
\* string itself, or the JSON text the client parses back to the same object
CarriesUnmodified(frame, message) ==
    /\ frame.text = WireText(message)
    /\ IF message.type = "string" THEN frame.text = message.value
       ELSE JsonParse(frame.text) = message

IngestStep ==
    BroadcastStep =>
        /\ lastBroadcast'.status = 200
        /\ lastBroadcast'.delivered \subseteq RoomClients(rooms, Invoked.roomId)
        /\ \A c \in DOMAIN readyState :
              IF c \in lastBroadcast'.delivered
              THEN /\ connRoom[c] = Invoked.roomId
                   /\ Len(inbox'[c]) = Len(inbox[c]) + 1
                   /\ SubSeq(inbox'[c], 1, Len(inbox[c])) = inbox[c]
                   /\ CarriesUnmodified(inbox'[c][Len(inbox'[c])], Invoked.message)
              ELSE inbox'[c] = inbox[c]
        /\ RoomClients(rooms, Invoked.roomId) = {} => inbox' = inbox /\ rooms' = rooms

\* C27: the ingestion endpoint, given {roomId, message}, sends exactly that
\* message, unmodified, to members of roomId and to no connection of another
\* room, and answers with success also when the room has no members.
C27_IngestBroadcastsVerbatim == [][IngestStep]_vars

\* a member of one room holds the token event with the quotation mark in its
\* delta, a connection of the other room holds nothing, and a later request
\* for a room without members has been answered 200
C27_Witness ==
    /\ Len(ingested) = 2
    /\ ingested[1].message = WsToken
    /\ lastBroadcast.status = 200
    /\ lastBroadcast.members = {}
    /\ \E c, d \in DOMAIN inbox :
          /\ Len(inbox[c]) = 1
          /\ JsonParse(inbox[c][1].text) = WsToken
          /\ connRoom[d] # connRoom[c]
          /\ inbox[d] = <<>>

----------------------------------------------------------------------------
(* Admission control: the settings a decision is taken with *)

\* what the latest completed settings update of the room has stored; the
\* defaults if there has been none
LatestSettings ==
    IF AdmRoom \in DOMAIN roomSettings THEN roomSettings[AdmRoom]
    ELSE [roomId |-> AdmRoom, rateLimitMax |-> 5, rateLimitWindowMs |-> 20000,
          slowModeMs |-> 0]

\* the request is decided as the rate limit and the slow mode decide with the
\* latest settings, and the counters are left as that decision leaves them
DecidedWithLatest ==
    AdmPost =>
        LET S == LatestSettings
            rate == checkRateLimit(rateLimitStore, RateKeyAnon, S.rateLimitMax,
                                   S.rateLimitWindowMs, now)
            slow == SlowModeDenies(slowModeStore, RateKeyAnon, S.slowModeMs, now)
        IN  /\ rateLimitStore' = rate.store
            /\ IF ~rate.allowed
               THEN /\ resp' = RateLimited(rate.retryAfterMs)
                    /\ slowModeStore' = slowModeStore
               ELSE IF slow
               THEN /\ resp'.status = 429
                    /\ resp'.retryAfterMs =
                          JsSub(S.slowModeMs, JsSub(now, LastAcceptedAt(slowModeStore, RateKeyAnon)))
                    /\ slowModeStore' = slowModeStore
               ELSE /\ resp'.status = 200
                    /\ slowModeStore' = IF JsGt(S.slowModeMs, 0)
                                        THEN MapSet(slowModeStore, RateKeyAnon, now)
                                        ELSE slowModeStore

----------------------------------------------------------------------------
(* Flags of stored messages: properties *)

\* the flags array of the message getMessage(id) returns
FlagsOf(msgs, id) == FieldOr(msgs[FindIndex(msgs, id)], "flags", <<>>)

FlagNames == {EditFlag, <<"d", "u", "p">>}

\* flagging once more with the same name leaves the flags as they are
FlagIdempotent ==
    \A id \in StoreIds, flag \in FlagNames :
        LET once == flagMessage(messages, id, flag, now)
            twice == flagMessage(once, id, flag, now)
        IN  IF HasMessage(messages, id)
            THEN /\ FlagsOf(twice, id) = FlagsOf(once, id)
                 /\ Includes(FlagsOf(once, id), flag)
                 /\ \A k \in 1..Len(FlagsOf(messages, id)) :
                       Includes(FlagsOf(once, id), FlagsOf(messages, id)[k])
                 /\ Len(FlagsOf(once, id)) <= Len(FlagsOf(messages, id)) + 1
                 /\ FlagsOf(resolveFlags(once, id, now), id) = <<>>
            ELSE /\ once = messages
                 /\ resolveFlags(messages, id, now) = messages

\* the calls made: a call for a stored id reports it found and leaves the
\* flag there (flagMessage) or none (resolveFlags); a call for an absent id
\* reports it missing and changes nothing
FlagCallStep ==
    /\ FlagMessage(EditFlagged, EditFlag) =>
          IF HasMessage(messages, EditFlagged)
          THEN resp'.found /\ Includes(FlagsOf(messages', EditFlagged), EditFlag)
          ELSE ~resp'.found /\ messages' = messages
    /\ ResolveFlags(EditFlagged) =>
          IF HasMessage(messages, EditFlagged)
          THEN resp'.found /\ FlagsOf(messages', EditFlagged) = <<>>
          ELSE ~resp'.found /\ messages' = messages

\* C29: flagging a message twice with the same name leaves the same flags as
\* flagging it once; resolveFlags(id) leaves the flags empty; for an id that
\* is not stored both report that nothing was found and change nothing.
C29_FlagIdempotent == [](FlagIdempotent) /\ [][FlagCallStep]_vars

\* the message is flagged, a second message is stored, and the last call was
\* a flagMessage for the flagged message
C29_Witness ==
    /\ Len(messages) = 2
    /\ HasMessage(messages, EditFlagged)
    /\ FlagsOf(messages, EditFlagged) = <<EditFlag>>
    /\ resp.op = "flagMessage"
    /\ resp.found

\* a flagMessage for an id that is not stored has reported it missing
C29_Absent ==
    /\ resp.op = "flagMessage"
    /\ ~resp.found
    /\ ~HasMessage(messages, EditFlagged)
    /\ Len(messages) = 1

----------------------------------------------------------------------------
(* The flag-detector specification: detectFlags applied once to a content   *)
(* put together from three parts                                            *)

Pad(n, ch) == [i \in 1..n |-> ch]

FlagParts ==
    {<<>>, <<"a">>, Pad(6, "a"), <<"\n">>, Pad(6, "\n"), Pad(22, "b"),
     <<"h", "t", "t", "p", ":", "/", "/">>, <<"H", "T", "T", "P", "S", ":", "/", "/", "x">>,
     <<"s", "p">>, <<"A", "M">>, <<"f", "r", "e", "e">>, <<" ", "m", "o", "n", "e", "y">>}

DetectFlags ==
    \E p1 \in FlagParts, p2 \in FlagParts, p3 \in FlagParts :
        LET content == p1 \o p2 \o p3
        IN  /\ resp = NoResponse
            /\ resp' = [op |-> "detectFlags", content |-> content,
                        flags |-> detectFlags(content)]
            /\ UNCHANGED <<now, nextUuid, storeVars, admVars, reqs, wsVars, users, session,
                           chat>>

NextFlags == DetectFlags

SpecFlags == Init /\ [][NextFlags]_vars

\* some character occurs at least seven times in a row
HasRun(s) ==
    \E i \in 1..(Len(s) - 6) : \A j \in i..(i + 6) : s[j] = s[i]

\* some character other than a line terminator occurs at least seven times
\* in a row
HasRunOnLine(s) ==
    \E i \in 1..(Len(s) - 6) :
        s[i] \notin {"\n", "\r"} /\ \A j \in i..(i + 6) : s[j] = s[i]

HasBannedKeyword(s) ==
    \E k \in 1..Len(bannedKeywords) : includes(toLowerCase(s), bannedKeywords[k])

\* the flags returned are those the three rules give, in the order of the rules
FlagsAre(flags, repeated, link, banned) ==
    flags = (IF repeated THEN <<"repeated-characters">> ELSE <<>>)
            \o (IF link THEN <<"link-only">> ELSE <<>>)
            \o (IF banned THEN <<"banned-keyword">> ELSE <<>>)

\* C30: detectFlags returns 'repeated-characters' exactly when some character
\* occurs at least 7 times consecutively, 'link-only' exactly when the content
\* holds an http(s) URL token and is shorter than 30, 'banned-keyword' exactly
\* when the lower-cased content contains a banned keyword, and nothing else.
C30_DetectFlags ==
    resp.op = "detectFlags" =>
        FlagsAre(resp.flags, HasRun(resp.content),
                 HasUrl(resp.content) /\ Len(resp.content) < 30,
                 HasBannedKeyword(resp.content))

\* the same with runs of a line terminator left out of the first rule
C30_DetectFlagsOnLine ==
    resp.op = "detectFlags" =>
        FlagsAre(resp.flags, HasRunOnLine(resp.content),
                 HasUrl(resp.content) /\ Len(resp.content) < 30,
                 HasBannedKeyword(resp.content))

\* a call of detectFlags changes nothing but its return value
C30_NoSideEffect == [][DetectFlags => UNCHANGED <<storeVars, admVars, reqs, wsVars>>]_vars

\* seven line feeds are returned without a flag
C30_NewlineRun ==
    /\ resp.op = "detectFlags"
    /\ resp.content = Pad(7, "\n")
    /\ resp.flags = <<>>

\* a short content with a link in capitals and a keyword in mixed case
C30_LinkAndKeyword ==
    /\ resp.op = "detectFlags"
    /\ resp.content = <<"H", "T", "T", "P", "S", ":", "/", "/", "x", "s", "p", "A", "M">>
    /\ resp.flags = <<"link-only", "banned-keyword">>

----------------------------------------------------------------------------
(* utils/sortStrings: asc, desc, sortStrings, sortStringsDesc *)

MaxSortLen == 3

\* the host's default locale, which localeCompare(_, undefined, _) uses:
\* "en" files the umlaut under its base letter, "sv" after z
SortLocales == {"en", "sv"}

\* primary collation weight of one character: case never matters, an accent
\* matters only where the locale makes the accented letter a letter of its own
PrimaryWeight(locale, c) ==
    LET l == LowerChar(c)
    IN  IF \E i \in 1..Len(LowerLetters) : LowerLetters[i] = l
        THEN CHOOSE i \in 1..Len(LowerLetters) : LowerLetters[i] = l
        ELSE IF c \in {"ä", "Ä"}
        THEN IF locale = "sv" THEN Len(LowerLetters) + 1 ELSE 1
        ELSE 0

RECURSIVE CompareWeights(_, _)
CompareWeights(a, b) ==
    IF a = <<>> /\ b = <<>> THEN 0
    ELSE IF a = <<>> THEN -1
    ELSE IF b = <<>> THEN 1
    ELSE IF Head(a) < Head(b) THEN -1
    ELSE IF Head(a) > Head(b) THEN 1
    ELSE CompareWeights(Tail(a), Tail(b))

\* a.localeCompare(b, undefined, { sensitivity: "base" })
localeCompare(locale, a, b) ==
    CompareWeights([i \in 1..Len(a) |-> PrimaryWeight(locale, a[i])],
                   [i \in 1..Len(b) |-> PrimaryWeight(locale, b[i])])

\* comparison by code units, as a.localeCompare would not do
asc_CodeUnits(locale, a, b) ==
    LET Unit(c) ==
            IF \E i \in 1..26 : UpperLetters[i] = c
            THEN CHOOSE i \in 1..26 : UpperLetters[i] = c
            ELSE IF \E i \in 1..26 : LowerLetters[i] = c
            THEN 32 + (CHOOSE i \in 1..26 : LowerLetters[i] = c)
            ELSE 200
    IN  CompareWeights([i \in 1..Len(a) |-> Unit(a[i])],
                       [i \in 1..Len(b) |-> Unit(b[i])])

\* asc((x) => x)
asc(locale, a, b) == localeCompare(locale, a, b)

\* desc((x) => x)
desc(locale, a, b) == localeCompare(locale, b, a)

\* Array.prototype.sort(compareFn): stable, in place on the receiver
ArraySort(xs, Cmp(_, _)) ==
    LET Insert(sorted, x) ==
            LET later == {i \in 1..Len(sorted) : Cmp(sorted[i], x) > 0}
                at == IF later = {} THEN Len(sorted) + 1
                      ELSE CHOOSE i \in later : \A j \in later : i <= j
            IN  SubSeq(sorted, 1, at - 1) \o <<x>> \o SubSeq(sorted, at, Len(sorted))
        RECURSIVE SortPrefix(_)
        SortPrefix(n) == IF n = 0 THEN <<>> ELSE Insert(SortPrefix(n - 1), xs[n])
    IN  SortPrefix(Len(xs))

\* the array objects of one call: the caller's array is object 1
InputRef == 1

\* [...xs]: a new array object holding the elements of xs
SpreadArray(heap, ref) ==
    LET fresh == Len(heap) + 1
    IN  [heap |-> Append(heap, heap[ref]), ref |-> fresh]

\* sortStrings(xs) and sortStringsDesc(xs): the heap after the call and the
\* returned reference
sortStrings(locale, heap, xs) ==
    LET copy == SpreadArray(heap, xs)
        Cmp(a, b) == asc(locale, a, b)
    IN  [heap |-> [copy.heap EXCEPT ![copy.ref] = ArraySort(@, Cmp)], ref |-> copy.ref]

sortStringsDesc(locale, heap, xs) ==
    LET copy == SpreadArray(heap, xs)
        Cmp(a, b) == desc(locale, a, b)
    IN  [heap |-> [copy.heap EXCEPT ![copy.ref] = ArraySort(@, Cmp)], ref |-> copy.ref]

SortWords == {<<"a">>, <<"A">>, <<"b">>, <<"B">>, <<"ä">>, <<"a", "b">>, <<"A", "b">>,
              <<"z">>}

RECURSIVE ArraysUpTo(_)
ArraysUpTo(n) ==
    IF n = 0 THEN {<<>>}
    ELSE LET shorter == ArraysUpTo(n - 1)
         IN  shorter \cup {Append(xs, w) : xs \in {s \in shorter : Len(s) = n - 1},
                                           w \in SortWords}

\* one call of sortStrings or sortStringsDesc in a fresh process
SortCall(descending) ==
    \E locale \in SortLocales, input \in ArraysUpTo(MaxSortLen) :
        LET heap == <<input>>
            out == IF descending THEN sortStringsDesc(locale, heap, InputRef)
                   ELSE sortStrings(locale, heap, InputRef)
        IN  /\ resp = NoResponse
            /\ resp' = [op |-> IF descending THEN "sortStringsDesc" ELSE "sortStrings",
                        locale |-> locale, input |-> input,
                        inputAfter |-> out.heap[InputRef],
                        result |-> out.heap[out.ref],
                        sameObject |-> out.ref = InputRef]
            /\ UNCHANGED <<now, nextUuid, storeVars, admVars, reqs, wsVars, users, session,
                           chat>>

SortAscending == SortCall(FALSE)
SortDescending == SortCall(TRUE)

NextSort == SortAscending \/ SortDescending

SpecSort == Init /\ [][NextSort]_vars

\* the elements of an array with their multiplicities
BagOfArray(xs) ==
    [w \in {xs[i] : i \in 1..Len(xs)} |-> Cardinality({i \in 1..Len(xs) : xs[i] = w})]

\* C31: sortStrings and sortStringsDesc return a new array that is a
\* permutation of the input, in which no element is followed by one that the
\* case-insensitive comparison puts before it (ascending) or after it
\* (descending); the input array is left as it was, and an empty or
\* one-element input comes back as an equal array.
C31_SortStrings ==
    resp.op \in {"sortStrings", "sortStringsDesc"} =>
        LET r == resp.result
            sign == IF resp.op = "sortStrings" THEN 1 ELSE -1
        IN  /\ ~resp.sameObject
            /\ resp.inputAfter = resp.input
            /\ BagOfArray(r) = BagOfArray(resp.input)
            /\ Len(r) = Len(resp.input)
            /\ \A i \in 1..Len(r), j \in 1..Len(r) :
                   i < j => sign * localeCompare(resp.locale, r[i], r[j]) <= 0
            /\ Len(resp.input) <= 1 => r = resp.input

\* an ascending call on an unsorted input with mixed case
C31_Witness ==
    /\ resp.op = "sortStrings"
    /\ resp.input = <<<<"z">>, <<"B">>, <<"a">>>>
    /\ resp.result = <<<<"a">>, <<"B">>, <<"z">>>>

\* a descending call that keeps equal-ranking elements in input order
C31_Descending ==
    /\ resp.op = "sortStringsDesc"
    /\ resp.input = <<<<"a">>, <<"b">>, <<"A">>>>
    /\ resp.result = <<<<"b">>, <<"a">>, <<"A">>>>

----------------------------------------------------------------------------
(* Orchestrations that overlap in one room: statistics *)

\* the orchestrations that have persisted a new user message
Persisted == {i \in 1..Len(reqs) : reqs[i].persisted}

\* the orchestrations whose onFinish has updated the statistics
Finished == {i \in 1..Len(reqs) : reqs[i].gen = "ok"}

\* the message counters of every room count the orchestrations of the room
StatsCountAll ==
    \A roomId \in {reqs[i].roomId : i \in 1..Len(reqs)} :
        LET stats == getRoomStats(roomStats, roomId)
        IN  /\ stats.userMessages =
                   Cardinality({i \in Persisted : reqs[i].roomId = roomId})
            /\ stats.assistantMessages =
                   Cardinality({i \in Finished : reqs[i].roomId = roomId})
            /\ stats.totalResponses = stats.assistantMessages

\* the step in which onFinish of an orchestration runs adds the usage of that
\* generation to the token counters the room has at that moment
TokensAdded ==
    \A i \in 1..Len(reqs) :
        (reqs[i].gen = "running" /\ reqs'[i].gen = "ok") =>
            LET old == getRoomStats(roomStats, reqs[i].roomId).tokenUsage
                new == getRoomStats(roomStats', reqs[i].roomId).tokenUsage
            IN  \E usage \in Usages :
                    LET prompt == UsageField(usage, "promptTokens", "inputTokens")
                        completion == UsageField(usage, "completionTokens", "outputTokens")
                    IN  /\ new.prompt = old.prompt + prompt
                        /\ new.completion = old.completion + completion
                        /\ new.total = old.total + prompt + completion

\* C33: when orchestrations of one room overlap no statistics update is
\* lost: userMessages counts every new user message, assistantMessages and
\* totalResponses count every completed generation, and each completion adds
\* its usage to the token counters.
C33_NoLostStatsUpdate == [](StatsCountAll) /\ [][TokensAdded]_vars

\* two orchestrations of one room have both run onFinish while each is still
\* awaiting its first broadcast of onFinish; both updates are in the counters
C33_Witness ==
    /\ Len(reqs) = 2
    /\ reqs[1].roomId = reqs[2].roomId
    /\ reqs[1].fin = "bcastAssistant" /\ reqs[2].fin = "bcastAssistant"
    /\ Persisted = {1, 2}
    /\ roomStats[StreamRoom].userMessages = 2
    /\ roomStats[StreamRoom].assistantMessages = 2
    /\ roomStats[StreamRoom].totalResponses = 2
    /\ roomStats[StreamRoom].tokenUsage = [prompt |-> 3, completion |-> 2, total |-> 5]

----------------------------------------------------------------------------
(* lib/ws: sockets and timers of one client session *)

\* the sockets of the session that are connecting or open
LiveSockets ==
    {s \in 1..Len(session.sockets) : session.sockets[s] \in {"CONNECTING", "OPEN"}}

\* C34: in every reachable state a client session has at most one socket
\* that is connecting or open and at most one pending reconnect timer, and
\* never a live socket and a pending timer together.
C34_OneSocketOrTimer ==
    /\ Cardinality(LiveSockets) <= 1
    /\ Cardinality(session.timers) <= 1
    /\ Cardinality(LiveSockets) + Cardinality(session.timers) <= 1
    /\ session.timerPending <=> session.timers # {}

\* the session has lost two connections and is on its third socket, with
\* the second reconnect timer fired
C34_Witness ==
    /\ Len(session.sockets) = 3
    /\ LiveSockets = {3}
    /\ session.sockets[3] = "OPEN"
    /\ Len(session.scheduled) = 2
    /\ session.timers = {}

\* a reconnect timer is pending and no socket is live
C34_TimerPending ==
    /\ Len(session.sockets) = 2
    /\ LiveSockets = {}
    /\ session.timers = {2}

----------------------------------------------------------------------------
(* components/Chat in a shared room: messages of other members *)

\* the ids a user-message event can carry: one of a user message in the list,
\* or the id of a message the list does not hold
HeardIds ==
    {chat.messages[n].id : n \in {m \in 1..Len(chat.messages) : chat.messages[m].role = "user"}}
        \cup {<<"c", 7>>}

ChatUserMessages ==
    \E senderId \in {ChatClientId, ChatOtherId}, id \in HeardIds :
        ChatUserMessage(senderId, id)

ChatOtherEvents == \E j \in 1..MaxChatOthers : ChatOtherEvent(j)

\* the member's own responses reach it over HTTP only
NextShared ==
    \/ ChatSubmit
    \/ ChatReads
    \/ ChatRejections
    \/ ChatStop
    \/ ChatUserMessages
    \/ ChatOtherEvents

SpecShared == Init /\ [][NextShared]_vars


\* the step delivers the assistant-message or the done event of the response
\* the client is waiting for
AwaitedEventDelivered ==
    \/ \E k \in 1..Len(chat.ws) :
          /\ chat.awaited = k
          /\ chat.ws[k] >= MaxChatTokens
          /\ Len(chat'.ws) = Len(chat.ws)
          /\ chat'.ws[k] = chat.ws[k] + 1
    \/ \E j \in 1..Len(chat.others) :
          /\ Len(chat'.others) = Len(chat.others)
          /\ chat.awaited = MaxChatSends + j
          /\ chat.others[j] >= MaxChatTokens
          /\ chat'.others[j] = chat.others[j] + 1

LoadingEnds == (chat.isLoading /\ AwaitedEventDelivered) => ~chat'.isLoading

\* C35: a client that is loading leaves the loading state when the
\* assistant-message or done event of the response it waits for is
\* delivered, also when it pressed Stop earlier and now waits for the
\* response to another member's user-message.
C35_LoadingEnds == [][LoadingEnds]_vars

\* as long as Stop has not been pressed since the last send, the event ends
\* the loading state
C35_LoadingEndsUnlessStopped == [][~chat.stopRequested => LoadingEnds]_vars

\* Stop was pressed, another member's message set the loading state again,
\* all events of the response to it have been delivered, and the client is
\* still loading
C35_StuckLoading ==
    /\ chat.stopRequested
    /\ chat.isLoading
    /\ Len(chat.others) = 2
    /\ chat.awaited = MaxChatSends + 2
    /\ chat.others[2] = MaxChatTokens + 2


\* the list holds no id twice
DistinctIds ==
    \A m \in 1..Len(chat.messages), n \in 1..Len(chat.messages) :
        chat.messages[m].id = chat.messages[n].id => m = n

\* the step delivers a user-message event
UserMessageDelivered == Len(chat'.others) = Len(chat.others) + 1

\* a user-message event from this client, or with an id the list holds, adds
\* nothing; any other adds one message with the id of the event
HeardOnce ==
    UserMessageDelivered =>
        \/ chat'.messages = chat.messages
        \/ /\ chat'.awaited # chat.awaited
           /\ Len(chat'.messages) = Len(chat.messages) + 1
           /\ SubSeq(chat'.messages, 1, Len(chat.messages)) = chat.messages
           /\ \A n \in 1..Len(chat.messages) :
                  chat.messages[n].id # chat'.messages[Len(chat'.messages)].id

\* C40: whatever user-message events the client has received, its message
\* list holds no two messages with the same id: an event whose id is in the
\* list, or whose senderId is the client's own id, adds nothing.
C40_NoDuplicateIds == [](DistinctIds) /\ [][HeardOnce]_vars

\* the client has sent a message and heard two user-message events from
\* another member, the second with an id the list held: one message added
C40_Witness ==
    /\ Len(chat.http) = 1
    /\ Len(chat.others) = 2
    /\ chat.awaited = MaxChatSends + 2
    /\ Len(chat.messages) = 2
    /\ chat.messages[2].id = <<"c", 7>>
    /\ chat.others = <<0, 0>>

----------------------------------------------------------------------------
(* The two-room specification: messages of two rooms, edited, moderated and *)
(* deleted by requests that name either room                                *)

MaxRoomReqs == 2
MaxRoomStored == 2

\* a message created one tick ago is saved
RoomsSave ==
    /\ Len(messages) < MaxRoomStored
    /\ \E id \in StoreIds, roomId \in StoreRooms :
          /\ ~HasMessage(messages, id)
          /\ SaveMessage(StoreMessage(id, roomId, now - TickMs))

\* the updates a PATCH body can carry, one per branch of the handler
RoomsUpdates ==
    {[content |-> JsString(<<"e", "d">>)],
     [pinned |-> JsBoolean(TRUE)],
     [hidden |-> JsBoolean(TRUE)],
     [reaction |-> JsString(<<"+", "1">>), userId |-> JsString(<<"u", "1">>)],
     [flag |-> JsString(EditFlag)],
     [resolve |-> JsBoolean(TRUE)]}

RoomsPatch ==
    /\ Len(reqs) < MaxRoomReqs
    /\ \E roomId \in StoreRooms, id \in StoreIds, update \in RoomsUpdates :
          MessagesPatch(Spread([roomId |-> JsString(roomId), id |-> JsString(id)], update))

RoomsDelete ==
    /\ Len(reqs) < MaxRoomReqs
    /\ \E roomId \in StoreRooms, id \in StoreIds :
          MessagesDelete([roomId |-> JsString(roomId), id |-> JsString(id)])

RoomsModerate ==
    /\ Len(reqs) < MaxRoomReqs
    /\ \E roomId \in StoreRooms, id \in StoreIds, action \in ModerationActions :
          ModerationPatch(roomId, id, action, ModActor)

RoomsReturn ==
    \E i \in 1..Len(reqs), fetchOk \in BOOLEAN :
        MessagesBroadcast(i, fetchOk) \/ ModerationBroadcast(i, fetchOk)

NextRooms == RoomsSave \/ RoomsPatch \/ RoomsDelete \/ RoomsModerate \/ RoomsReturn

SpecRooms == Init /\ [][NextRooms]_vars

\* the room a request hands to broadcastToRoom
TargetRoom(r) == IF r.route = "messages" THEN r.body.roomId.value ELSE r.roomId

\* the step starts a request that broadcasts an event
BroadcastStarted ==
    /\ Len(reqs') = Len(reqs) + 1
    /\ reqs'[Len(reqs')].sent # <<>>

\* a request that broadcasts message-updated or message-deleted hands
\* broadcastToRoom the room of the message as it was stored
ToOwningRoom ==
    BroadcastStarted =>
        LET r == reqs'[Len(reqs')]
        IN  /\ r.sent[1].type \in {"message-updated", "message-deleted"}
            /\ TargetRoom(r) = getMessage(messages, r.id).roomId

\* C36: every message-updated and message-deleted event is broadcast to the
\* room that owns the affected message; no update or delete request has an
\* event delivered to the members of another room.
C36_ToOwningRoom == [][ToOwningRoom]_vars

\* an update request naming room r2 has broadcast a message of room r1 to r2
C36_CrossRoom ==
    /\ Len(reqs) = 1
    /\ reqs[1].route = "messages"
    /\ reqs[1].pc = "done"
    /\ reqs[1].status = 200
    /\ TargetRoom(reqs[1]) = <<"r", "2">>
    /\ reqs[1].sent[1].type = "message-updated"
    /\ reqs[1].sent[1].message.roomId = <<"r", "1">>
    /\ reqs[1].sent[1].message.content = <<"e", "d">>


\* the ids the store holds
StoredIds(msgs) == {msgs[n].id : n \in 1..Len(msgs)}

\* the step is the synchronous part of a DELETE request for the id
DeleteStarted(id) ==
    /\ Len(reqs') = Len(reqs) + 1
    /\ reqs'[Len(reqs')].route = "messages"
    /\ reqs'[Len(reqs')].id = id
    /\ reqs'[Len(reqs')].sent = <<MessageDeletedEvent(id)>>

\* a stored message keeps its id, roomId and createdAt as long as the store
\* holds it, and leaves the store only in a delete
IdentityKept ==
    \A id \in StoredIds(messages) :
        IF id \in StoredIds(messages')
        THEN /\ getMessage(messages', id).id = id
             /\ getMessage(messages', id).roomId = getMessage(messages, id).roomId
             /\ getMessage(messages', id).createdAt = getMessage(messages, id).createdAt
        ELSE DeleteStarted(id)

\* C37: once a message is saved its id, roomId and createdAt never change
\* under the update, flag, resolveFlags and toggleReaction calls the HTTP
\* endpoints make; only delete removes it.
C37_IdentityKept == [][IdentityKept]_vars

\* a message has been edited and flagged: it has a new content, a flag and an
\* updatedAt, and the createdAt it was saved with
C37_Witness ==
    /\ Len(messages) = 1
    /\ messages[1].id = <<"c", 1>>
    /\ messages[1].roomId = <<"r", "1">>
    /\ messages[1].createdAt = StartTime - TickMs
    /\ messages[1].content = <<"e", "d">>
    /\ "flags" \in DOMAIN messages[1]
    /\ messages[1].flags # <<>>
    /\ messages[1].updatedAt = StartTime
    /\ Len(reqs) = 2

----------------------------------------------------------------------------
(* The sender-pair specification: requests to POST /api/stream from two     *)
(* senders in two rooms whose ids may hold a colon                          *)

MaxPairReqs == 2

PairRooms == {<<"a">>, <<"a", ":", "b">>}
PairSenders == {<<"c">>, <<"b", ":", "c">>}
Pairs == PairRooms \X PairSenders

PairsPost(pair) ==
    POST(MaxPairReqs, pair[1], TRUE, "user", AdmContent, pair[2], NoId, UndefAttachments)

PairsPosts == \E pair \in Pairs : PairsPost(pair)

\* an administrator limits a room to one message per window, or turns its
\* slow mode on
PairsSettings ==
    \E roomId \in PairRooms, updates \in DirectUpdates :
        /\ updateRoomSettings(roomSettings, roomId, updates) # roomSettings
        /\ DirectUpdateRoomSettings(roomId, updates)

NextPairs == PairsPosts \/ PairsSettings \/ Tick

SpecPairs == Init /\ [][NextPairs]_vars

\* what admission control holds for a pair: its rate entry and its slow-mode
\* timestamp, each as a sequence that is empty when the store has none
AdmissionState(rates, slows, pair) ==
    LET key == RateKey(pair[1], pair[2])
    IN  <<IF key \in DOMAIN rates THEN <<rates[key]>> ELSE <<>>,
          IF key \in DOMAIN slows THEN <<slows[key]>> ELSE <<>>>>

\* a request of one pair leaves what is held for the pair q as it was
LeavesAlone(q) ==
    AdmissionState(rateLimitStore', slowModeStore', q) =
        AdmissionState(rateLimitStore, slowModeStore, q)

Independent ==
    \A p \in Pairs : PairsPost(p) => \A q \in Pairs \ {p} : LeavesAlone(q)

\* C38: admission decisions for distinct (roomId, senderId) pairs are
\* independent: a request of one pair never changes the rate counter, the
\* window or the slow-mode timestamp used for another pair.
C38_Independent == [][Independent]_vars

\* a request of one pair leaves alone what is held for every pair with
\* another key
C38_IndependentKeys ==
    [][\A p \in Pairs : PairsPost(p) =>
          \A q \in Pairs : RateKey(q[1], q[2]) # RateKey(p[1], p[2]) => LeavesAlone(q)]_vars

\* room a:b is limited to one message per window; sender b:c has sent one
\* message to room a, and sender c, who has sent nothing, is refused in a:b
C38_QuotaTaken ==
    /\ Len(reqs) = 1
    /\ reqs[1].roomId = <<"a">>
    /\ reqs[1].senderId = <<"b", ":", "c">>
    /\ getRoomSettings(roomSettings, <<"a", ":", "b">>).rateLimitMax = 1
    /\ resp.op = "stream"
    /\ resp.status = 429
    /\ DOMAIN rateLimitStore = {<<"a", ":", "b", ":", "c">>}
    /\ rateLimitStore[<<"a", ":", "b", ":", "c">>].count = 1

----------------------------------------------------------------------------
(* api/typing: POST, and the signal specification: one client of one room   *)
(* sends heartbeats and typing signals as time passes                       *)

MaxSignals == 3

TypingEvent(userId, isTyping) == [type |-> "typing", userId |-> userId, isTyping |-> isTyping]

\* POST /api/typing with body {roomId, userId, isTyping}, up to the await of
\* its fetch or, for a request it rejects, to its response
TypingPost(roomId, userId, isTyping) ==
    /\ IF Falsy(roomId) \/ Falsy(userId) \/ isTyping.type # "boolean"
       THEN /\ users' = users
            /\ reqs' = Append(reqs, [route |-> "typing", roomId |-> roomId, pc |-> "done",
                                     status |-> 400, sent |-> <<>>, users |-> {},
                                     at |-> now])
       ELSE /\ users' = updateUser(users, [id |-> userId, roomId |-> roomId,
                                           isTyping |-> isTyping.value], now)
            /\ reqs' = Append(reqs, [route |-> "typing", roomId |-> roomId, pc |-> "bcast",
                                     status |-> 0,
                                     sent |-> <<TypingEvent(userId, isTyping.value)>>,
                                     users |-> {}, at |-> now])
    /\ UNCHANGED <<now, nextUuid, storeVars, admVars, resp, wsVars, session, chat>>

\* the fetch has returned or thrown (the handler catches it): the response
TypingBroadcast(i) ==
    /\ i \in 1..Len(reqs)
    /\ "route" \in DOMAIN reqs[i]
    /\ reqs[i].route = "typing"
    /\ reqs[i].pc = "bcast"
    /\ reqs' = [reqs EXCEPT ![i].pc = "done", ![i].status = 200]
    /\ UNCHANGED <<now, nextUuid, storeVars, admVars, resp, wsVars, users, session, chat>>

SignalRoom == <<"r", "1">>
SignalUser == <<"u", "1">>
\* the name of a heartbeat: given, or left out
SignalNames == {<<"A">>, UndefStr}
\* the isTyping of a typing signal: a boolean, or left out
SignalTypings == {JsBoolean(TRUE), JsBoolean(FALSE), Undefined}

SignalsHeartbeat ==
    /\ Len(reqs) < MaxSignals
    /\ \E name \in SignalNames : PresencePost(SignalRoom, SignalUser, name)

SignalsTyping ==
    /\ Len(reqs) < MaxSignals
    /\ \E isTyping \in SignalTypings : TypingPost(SignalRoom, SignalUser, isTyping)

SignalsReturn == \E i \in 1..Len(reqs) : PresenceBroadcast(i) \/ TypingBroadcast(i)

NextSignals == SignalsHeartbeat \/ SignalsTyping \/ SignalsReturn \/ Tick

SpecSignals == Init /\ [][NextSignals]_vars

\* the record of the client holds a display name
HasName(us) ==
    /\ SignalUser \in DOMAIN us
    /\ "name" \in DOMAIN us[SignalUser]
    /\ us[SignalUser].name # UndefStr

\* the record of the client holds an isTyping value
HasTyping(us) == SignalUser \in DOMAIN us /\ "isTyping" \in DOMAIN us[SignalUser]

NameKept == HasName(users) => (HasName(users') /\ users'[SignalUser].name = users[SignalUser].name)

TypingKept ==
    HasTyping(users) =>
        (HasTyping(users') /\ users'[SignalUser].isTyping = users[SignalUser].isTyping)

Refreshed == SignalUser \in DOMAIN users' /\ users'[SignalUser].lastSeen = now

\* a typing signal keeps the stored name and refreshes lastSeen
TypingSignalKeeps ==
    \A b \in BOOLEAN :
        TypingPost(SignalRoom, SignalUser, JsBoolean(b)) => (NameKept /\ Refreshed)

\* a heartbeat that gives a name keeps isTyping and refreshes lastSeen
NamedHeartbeatKeeps ==
    PresencePost(SignalRoom, SignalUser, <<"A">>) => (TypingKept /\ Refreshed)

\* a heartbeat that gives no name keeps the stored name and isTyping and
\* refreshes lastSeen
BareHeartbeatKeeps ==
    PresencePost(SignalRoom, SignalUser, UndefStr) => (NameKept /\ TypingKept /\ Refreshed)

\* C39: a presence upsert keeps every field of the stored record that the
\* signal does not carry: a typing signal keeps the display name, a heartbeat
\* without a name keeps the display name, a heartbeat keeps isTyping; lastSeen
\* is always refreshed.
C39_UpsertKeeps == [][TypingSignalKeeps /\ NamedHeartbeatKeeps /\ BareHeartbeatKeeps]_vars

\* what holds: the typing signal keeps the name, every heartbeat keeps
\* isTyping, and lastSeen is refreshed
C39_KeepsButName ==
    [][/\ TypingSignalKeeps
       /\ NamedHeartbeatKeeps
       /\ PresencePost(SignalRoom, SignalUser, UndefStr) => (TypingKept /\ Refreshed)]_vars

\* a heartbeat gave the name A, a later heartbeat gave none: the record has
\* no name any more
C39_NameLost ==
    /\ Len(reqs) = 2
    /\ reqs[1].route = "presence" /\ reqs[2].route = "presence"
    /\ \E u \in reqs[1].users : u.name = <<"A">>
    /\ SignalUser \in DOMAIN users
    /\ users[SignalUser].name = UndefStr

=============================================================================
